---- MODULE Spec2Model ----
(***************************************************************************)
(* Accounting store of app_ac: ledger transactions, inventory movements    *)
(* and project costs/sales, on the in-memory fallback store and on the     *)
(* relational (MySQL/InnoDB) path.                                         *)
(*                                                                         *)
(* The six collections are sequences of records in insertion order (a JS   *)
(* Map iterates in insertion order; a table is read back through ORDER BY).*)
(* On the relational path they are the COMMITTED rows; every request runs  *)
(* as a process with a program counter at its awaits, and the writes of an *)
(* open database transaction wait in that process's write set until        *)
(* commit.                                                                 *)
(***************************************************************************)
EXTENDS Integers, Sequences, FiniteSets, TLC

\* ------------------------------------------------------------------ bounds
MaxId == 4          \* uuids generated in one run of inventory requests
MaxConcId == 5      \* uuids generated in one run of concurrent requests
MaxCompoundId == 10 \* uuids generated up to the end of a run of compound requests
MaxStockId == 8     \* uuids generated up to the end of a run of stock requests
MaxSortLen == 3     \* records per collection, and distinct dates, of a stored set to sort
MaxSeqId == 4       \* uuids generated in one run of sequential requests
MaxSeqRows == 1     \* items or projects created in one run of sequential requests
MaxRaceId == 10      \* uuids generated up to the end of a run of two concurrent stock requests
MaxTallyId == 7      \* uuids generated up to the end of a run of receipts and issues on one item
MaxHandlerId == 4    \* uuids generated up to the end of a run of requests to the handlers
MaxFrameId == 6      \* uuids generated up to the end of a run of requests of every operation
MaxProjectId == 12  \* uuids generated up to the end of a run of project requests
MaxQty == 2         \* largest quantity / amount of an input
MaxClock == 0       \* wall clock readings are 0..MaxClock
MaxRows == 2        \* items, projects or manual transactions created in one run

Procs == {1, 2}                       \* requests in flight at one time
Qtys == 1..MaxQty
Prices == {3}
Dates == {1}                          \* dates of receipts, issues, costs, sales
Names == {"Cement"}
Units == {"bag"}
Parties == {"Acme"}
Users == {"u1"}
Stamps == {0}                         \* updatedAt / createdAt sent by a client
CostTypes == {"construction", "expense"}
Amounts == {MaxQty}                   \* a transaction / cost amount, a sale price
UnknownId == 0                        \* an id no record ever had

NoError == ""
ItemNotFound == "Inventory item not found"
ProjectNotFound == "Project not found"
TransactionNotFound == "Transaction not found"
DbError == "db error"
RollbackError == "rollback error"

VARIABLES
    pool,           \* TRUE: MySQL configured (relational path); FALSE: fallback
    transactions, items, movements, projects, costs, sales,
    nextId,         \* next value of crypto.randomUUID()
    now,            \* last reading of the clock
    pc,             \* per request: where it stands
    call,           \* per request: the store function and its input
    err,            \* per request: the error it threw (NoError: none)
    base,           \* per request: rows of its first lookup
    wset,           \* per request: uncommitted writes of its db transaction
    held,           \* per request: pool connections it holds
    dirty,          \* per request: this call has changed committed data
    ret             \* per request: value returned by a read

tables == <<transactions, items, movements, projects, costs, sales>>
procvars == <<pc, call, err, base, wset, held, dirty, ret>>
vars == <<pool, transactions, items, movements, projects, costs, sales,
          nextId, now, pc, call, err, base, wset, held, dirty, ret>>

\* ------------------------------------------------------- Map / table helpers
\* Map.get(id) / SELECT ... WHERE id = ? LIMIT 1: zero or one row.
Lookup(t, id) == SelectSeq(t, LAMBDA r : r.id = id)

Has(t, id) == Lookup(t, id) # <<>>

Ids(t) == {t[i].id : i \in 1..Len(t)}

Rows(t) == {t[i] : i \in 1..Len(t)}

\* Map.set(rec.id, rec): an existing key keeps its position, a new one is appended.
MapSet(t, rec) ==
    IF Has(t, rec.id)
    THEN [i \in 1..Len(t) |-> IF t[i].id = rec.id THEN rec ELSE t[i]]
    ELSE Append(t, rec)

\* Map.delete(id) / DELETE ... WHERE id = ?
MapDelete(t, id) == SelectSeq(t, LAMBDA r : r.id # id)

EmptyWset ==
    [items |-> <<>>, movements |-> <<>>, transactions |-> <<>>,
     costs |-> <<>>, sales |-> <<>>,
     delSales |-> {}, delCosts |-> {}, delProjects |-> {},
     gapSales |-> {}, gapCosts |-> {}]

NoCall == [op |-> "none"]

\* ------------------------------------------------------------------ records
\* createTransactionFallback / insertTransactionDb: the Transaction stored for
\* an input, with a fresh uuid and the creation timestamp.
NewTransaction(input, id, t) ==
    [id |-> id, date |-> input.date, type |-> input.type,
     description |-> input.description, amount |-> input.amount,
     approved |-> input.approved, createdBy |-> input.createdBy,
     createdAt |-> t]

\* (mutant) the total computed as a sum
ReceiptMovementSum(input, id) ==
    [id |-> id, itemId |-> input.itemId, kind |-> "in", qty |-> input.qty,
     unitPrice |-> input.unitPrice, total |-> input.qty + input.unitPrice,
     party |-> input.supplier, date |-> input.date]

ReceiptMovement(input, id) ==
    [id |-> id, itemId |-> input.itemId, kind |-> "in", qty |-> input.qty,
     unitPrice |-> input.unitPrice, total |-> input.qty * input.unitPrice,
     party |-> input.supplier, date |-> input.date]

ReceiptTransactionInput(input, item) ==
    [date |-> input.date, type |-> "expense",
     description |-> <<"purchase", item.name, input.supplier, input.qty,
                       item.unit, input.unitPrice>>,
     amount |-> input.qty * input.unitPrice,
     approved |-> input.approved, createdBy |-> input.createdBy]

IssueMovement(input, id) ==
    [id |-> id, itemId |-> input.itemId, kind |-> "out", qty |-> input.qty,
     unitPrice |-> input.unitPrice, total |-> input.qty * input.unitPrice,
     party |-> input.project, date |-> input.date]

\* (mutant) the transaction is booked for the quantity actually removed
IssueTransactionInputRemoved(input, item) ==
    [date |-> input.date, type |-> "expense",
     description |-> <<"issue", item.name, input.project, input.qty,
                       item.unit, input.unitPrice>>,
     amount |-> (IF input.qty > item.quantity THEN item.quantity
                 ELSE input.qty) * input.unitPrice,
     approved |-> input.approved, createdBy |-> input.createdBy]

IssueTransactionInput(input, item) ==
    [date |-> input.date, type |-> "expense",
     description |-> <<"issue", item.name, input.project, input.qty,
                       item.unit, input.unitPrice>>,
     amount |-> input.qty * input.unitPrice,
     approved |-> input.approved, createdBy |-> input.createdBy]

Max(a, b) == IF a >= b THEN a ELSE b

\* (mutant) the subtraction without the floor at zero
NextQuantityUnclamped(quantity, qty) == quantity - qty

\* Math.max(0, quantity - qty)
NextQuantity(quantity, qty) == Max(0, quantity - qty)

projectCostTypeLabel(type) ==
    IF type = "construction" THEN "insha"
    ELSE IF type = "operation" THEN "tashghil"
    ELSE "masrufat"

NewProjectCost(input, id) ==
    [id |-> id, projectId |-> input.projectId, type |-> input.type,
     amount |-> input.amount, date |-> input.date, note |-> input.note]

CostTransactionInput(input) ==
    [date |-> input.date, type |-> "expense",
     description |-> <<"cost", projectCostTypeLabel(input.type),
                       input.projectName>>,
     amount |-> input.amount,
     approved |-> input.approved, createdBy |-> input.createdBy]

NewProjectSale(input, id) ==
    [id |-> id, projectId |-> input.projectId, unitNo |-> input.unitNo,
     buyer |-> input.buyer, price |-> input.price, date |-> input.date,
     terms |-> input.terms]

\* JavaScript null / SQL NULL
null == "null"

\* value || null: the empty string is falsy
OrNull(value) == IF value = "" THEN null ELSE value

\* the row INSERT INTO project_costs stores: note is input.note || null
ProjectCostRow(input, id) ==
    [NewProjectCost(input, id) EXCEPT !.note = OrNull(input.note)]

\* note: row.note ?? ""
mapProjectCostRow(row) ==
    [id |-> row.id, projectId |-> row.projectId, type |-> row.type,
     amount |-> row.amount, date |-> row.date,
     note |-> IF row.note = null THEN "" ELSE row.note]

\* the row INSERT INTO project_sales stores: terms is input.terms || null
ProjectSaleRow(input, id) ==
    [NewProjectSale(input, id) EXCEPT !.terms = OrNull(input.terms)]

\* terms: row.terms
mapProjectSaleRow(row) ==
    [id |-> row.id, projectId |-> row.projectId, unitNo |-> row.unitNo,
     buyer |-> row.buyer, price |-> row.price, date |-> row.date,
     terms |-> row.terms]

\* (mutant) the sale booked as an expense
SaleTransactionInputAsExpense(input) ==
    [date |-> input.date, type |-> "expense",
     description |-> <<"sale", input.unitNo, input.projectName, input.buyer>>,
     amount |-> input.price,
     approved |-> input.approved, createdBy |-> input.createdBy]

SaleTransactionInput(input) ==
    [date |-> input.date, type |-> "revenue",
     description |-> <<"sale", input.unitNo, input.projectName, input.buyer>>,
     amount |-> input.price,
     approved |-> input.approved, createdBy |-> input.createdBy]


\* ------------------------------------------------------------------- inputs
\* What the HTTP handlers let through: qty, unitPrice, amount, price > 0 and
\* an item quantity >= 0.
TransactionInputs ==
    [op : {"createTransaction"}, date : Dates, type : {"revenue", "expense"},
     description : {<<"manual">>}, amount : Amounts, approved : BOOLEAN,
     createdBy : Users]

ItemInputs ==
    [op : {"createInventoryItem"}, name : Names, quantity : 0..MaxQty,
     unit : Units, min : {0}, updatedAt : Stamps]

ReceiptInputs(ids, flags) ==
    [op : {"recordInventoryReceipt"}, itemId : ids, qty : Qtys,
     unitPrice : Prices, supplier : Parties, date : Dates,
     approved : flags, createdBy : Users]

IssueInputs(ids, flags) ==
    [op : {"recordInventoryIssue"}, itemId : ids, qty : Qtys,
     unitPrice : Prices, project : Parties, date : Dates,
     approved : flags, createdBy : Users]

ProjectInputs ==
    [op : {"createProject"}, name : Names, location : {"loc"}, floors : {1},
     units : {1}, createdAt : Stamps]

CostInputs(ids, flags) ==
    [op : {"createProjectCost"}, projectId : ids, projectName : Names,
     type : CostTypes, amount : Amounts, date : Dates, note : {""},
     approved : flags, createdBy : Users]

SaleInputs(ids, flags) ==
    [op : {"createProjectSale"}, projectId : ids, projectName : Names,
     unitNo : {"A1"}, buyer : Parties, price : Amounts, date : Dates,
     terms : {"none"}, approved : flags, createdBy : Users]

IdInputs(name, ids) == [op : {name}, id : ids]

\* The ids a client can name: those of the rows it can see, one it made up,
\* and the one it named in its previous call.
Nameable(t, p) ==
    Ids(t) \cup {UnknownId}
           \cup (IF "id" \in DOMAIN call[p] THEN {call[p].id} ELSE {})

Compound ==
    {"recordInventoryReceipt", "recordInventoryIssue", "createProjectCost",
     "createProjectSale", "deleteProject"}

\* uuids a call generates
IdsOf(op) ==
    IF op \in {"recordInventoryReceipt", "recordInventoryIssue",
               "createProjectCost", "createProjectSale"} THEN 2
    ELSE IF op \in {"createTransaction", "createInventoryItem",
                    "createProject"} THEN 1
    ELSE 0

\* uuids request p has still to generate
IdsLeft(p) ==
    IF pc[p] \in {"pool", "begin", "lookup", "update", "insert"}
    THEN IdsOf(call[p].op)
    ELSE IF pc[p] = "insertTransaction" THEN 1
    ELSE 0

RECURSIVE SumOver(_, _)
SumOver(S, f) ==
    IF S = {} THEN 0
    ELSE LET x == CHOOSE y \in S : TRUE IN f[x] + SumOver(S \ {x}, f)

IdsReserved == SumOver(Procs, [q \in Procs |-> IdsLeft(q)])

\* Clock readings do not go back; two readings may coincide.
ClockReadings == {t \in 0..MaxClock : t >= now /\ t <= now + 1}

\* ------------------------------------------------------------- bookkeeping
Goto(p, where) == pc' = [pc EXCEPT ![p] = where]

Throw(p, e) == err' = [err EXCEPT ![p] = e]

\* dirty[p]: some step of p's current call changed the committed collections.
Dirty(p) == dirty' = [dirty EXCEPT ![p] = @ \/ tables' # tables]

\* The call returns (e = NoError) or throws e to its caller.
Done(p, e, r) ==
    /\ Goto(p, "done")
    /\ Throw(p, e)
    /\ ret' = [ret EXCEPT ![p] = r]
    /\ Dirty(p)

\* A request arrives with input c: the store function is entered and awaits
\* getInitializedMysqlPool(). (cap: the uuids the run may use.)
Call(p, c, cap) ==
    /\ pc[p] \in {"idle", "done"}
    /\ nextId - 1 + IdsReserved + IdsOf(c.op) <= cap
    /\ call' = [call EXCEPT ![p] = c]
    /\ Goto(p, "pool")
    /\ Throw(p, NoError)
    /\ base' = [base EXCEPT ![p] = <<>>]
    /\ wset' = [wset EXCEPT ![p] = EmptyWset]
    /\ ret' = [ret EXCEPT ![p] = <<>>]
    /\ dirty' = [dirty EXCEPT ![p] = FALSE]
    /\ UNCHANGED <<pool, tables, nextId, now, held>>

At(p, op) == pc[p] = "pool" /\ call[p].op = op


\* ------------------------------------------------------------ fallback path
\* Every store function runs synchronously once the pool is known to be null:
\* its whole body is one step.

\* fallbackStore.transactions.set(transaction.id, transaction)
createTransactionFallback(input, id, t) ==
    transactions' = MapSet(transactions, NewTransaction(input, id, t))

createTransaction_fallback(p) ==
    /\ At(p, "createTransaction") /\ ~pool
    /\ \E t \in ClockReadings :
        /\ now' = t
        /\ createTransactionFallback(call[p], nextId, t)
    /\ nextId' = nextId + 1
    /\ UNCHANGED <<pool, items, movements, projects, costs, sales,
                   call, base, wset, held>>
    /\ Done(p, NoError, <<>>)

\* (mutant) a missing transaction is passed over in silence
approveTransactionIgnoresMissing(p) ==
    /\ At(p, "approveTransaction") /\ ~pool
    /\ UNCHANGED <<pool, items, movements, projects, costs, sales,
                   nextId, now, call, base, wset, held>>
    /\ LET existing == Lookup(transactions, call[p].id) IN
        IF existing = <<>>
        THEN /\ UNCHANGED transactions
             /\ Done(p, NoError, <<>>)
        ELSE /\ transactions' =
                    MapSet(transactions, [existing[1] EXCEPT !.approved = TRUE])
             /\ Done(p, NoError, <<[existing[1] EXCEPT !.approved = TRUE]>>)

approveTransaction_fallback(p) ==
    /\ At(p, "approveTransaction") /\ ~pool
    /\ UNCHANGED <<pool, items, movements, projects, costs, sales,
                   nextId, now, call, base, wset, held>>
    /\ LET existing == Lookup(transactions, call[p].id) IN
        IF existing = <<>>
        THEN /\ UNCHANGED transactions
             /\ Done(p, TransactionNotFound, <<>>)
        ELSE /\ transactions' =
                    MapSet(transactions, [existing[1] EXCEPT !.approved = TRUE])
             /\ Done(p, NoError, <<[existing[1] EXCEPT !.approved = TRUE]>>)

deleteTransaction_fallback(p) ==
    /\ At(p, "deleteTransaction") /\ ~pool
    /\ UNCHANGED <<pool, items, movements, projects, costs, sales,
                   nextId, now, call, base, wset, held>>
    /\ IF ~Has(transactions, call[p].id)
       THEN /\ UNCHANGED transactions
            /\ Done(p, TransactionNotFound, <<>>)
       ELSE /\ transactions' = MapDelete(transactions, call[p].id)
            /\ Done(p, NoError, <<>>)

NewInventoryItem(input, id) ==
    [id |-> id, name |-> input.name, quantity |-> input.quantity,
     unit |-> input.unit, min |-> input.min, updatedAt |-> input.updatedAt]

createInventoryItem_fallback(p) ==
    /\ At(p, "createInventoryItem") /\ ~pool
    /\ items' = MapSet(items, NewInventoryItem(call[p], nextId))
    /\ nextId' = nextId + 1
    /\ UNCHANGED <<pool, transactions, movements, projects, costs, sales,
                   now, call, base, wset, held>>
    /\ Done(p, NoError, <<>>)

\* for (const movement of fallbackStore.movements.values())
\*   if (movement.itemId === id) fallbackStore.movements.delete(movement.id);
\* The Map iterator walks the live entry list; a deleted entry leaves a hole
\* that the iterator steps over, so no later entry is skipped.
Hole == [id |-> -1, itemId |-> -1]

\* (mutant) the movements are held in an array and removed by index while it
\* is walked: the entry after a removed one is skipped
RECURSIVE DeleteMovementsOfByIndex(_, _, _)
DeleteMovementsOfByIndex(entries, i, id) ==
    IF i > Len(entries) THEN entries
    ELSE IF entries[i].itemId = id
         THEN DeleteMovementsOfByIndex(
                  SubSeq(entries, 1, i - 1) \o SubSeq(entries, i + 1, Len(entries)),
                  i + 1, id)
         ELSE DeleteMovementsOfByIndex(entries, i + 1, id)

RECURSIVE DeleteMovementsOf(_, _, _)
DeleteMovementsOf(entries, i, id) ==
    IF i > Len(entries) THEN SelectSeq(entries, LAMBDA m : m # Hole)
    ELSE IF entries[i] # Hole /\ entries[i].itemId = id
         THEN DeleteMovementsOf([entries EXCEPT ![i] = Hole], i + 1, id)
         ELSE DeleteMovementsOf(entries, i + 1, id)

\* (mutant) the item is removed and its movements are left
deleteInventoryItemKeepsMovements(p) ==
    /\ At(p, "deleteInventoryItem") /\ ~pool
    /\ items' = MapDelete(items, call[p].id)
    /\ UNCHANGED <<pool, transactions, movements, projects, costs, sales,
                   nextId, now, call, base, wset, held>>
    /\ Done(p, NoError, <<>>)

deleteInventoryItem_fallback(p) ==
    /\ At(p, "deleteInventoryItem") /\ ~pool
    /\ items' = MapDelete(items, call[p].id)
    /\ movements' = DeleteMovementsOf(movements, 1, call[p].id)
    /\ UNCHANGED <<pool, transactions, projects, costs, sales,
                   nextId, now, call, base, wset, held>>
    /\ Done(p, NoError, <<>>)

\* { ...item, quantity: item.quantity + input.qty, updatedAt: input.date }
ReceiptUpdated(item, input) ==
    [item EXCEPT !.quantity = item.quantity + input.qty,
                 !.updatedAt = input.date]

recordInventoryReceipt_fallback(p) ==
    /\ At(p, "recordInventoryReceipt") /\ ~pool
    /\ UNCHANGED <<pool, projects, costs, sales, call, base, wset, held>>
    /\ LET input == call[p]
           item == Lookup(items, input.itemId) IN
        IF item = <<>>
        THEN /\ UNCHANGED <<items, movements, transactions, nextId, now>>
             /\ Done(p, ItemNotFound, <<>>)
        ELSE /\ items' = MapSet(items, ReceiptUpdated(item[1], input))
             /\ movements' = MapSet(movements, ReceiptMovement(input, nextId))
             /\ \E t \in ClockReadings :
                 /\ now' = t
                 /\ createTransactionFallback(
                        ReceiptTransactionInput(input, item[1]), nextId + 1, t)
             /\ nextId' = nextId + 2
             /\ Done(p, NoError, <<>>)

\* { ...item, quantity: Math.max(0, item.quantity - input.qty), updatedAt }
IssueUpdated(item, input) ==
    [item EXCEPT !.quantity = NextQuantity(item.quantity, input.qty),
                 !.updatedAt = input.date]

\* (mutant) the movement is stored before the item is looked up
recordInventoryIssueStoresFirst(p) ==
    /\ At(p, "recordInventoryIssue") /\ ~pool
    /\ UNCHANGED <<pool, projects, costs, sales, call, base, wset, held>>
    /\ LET input == call[p]
           item == Lookup(items, input.itemId) IN
        /\ movements' = MapSet(movements, IssueMovement(input, nextId))
        /\ IF item = <<>>
           THEN /\ UNCHANGED <<items, transactions, now>>
                /\ nextId' = nextId + 1
                /\ Done(p, ItemNotFound, <<>>)
           ELSE /\ items' = MapSet(items, IssueUpdated(item[1], input))
                /\ \E t \in ClockReadings :
                    /\ now' = t
                    /\ createTransactionFallback(
                           IssueTransactionInput(input, item[1]), nextId + 1, t)
                /\ nextId' = nextId + 2
                /\ Done(p, NoError, <<>>)

recordInventoryIssue_fallback(p) ==
    /\ At(p, "recordInventoryIssue") /\ ~pool
    /\ UNCHANGED <<pool, projects, costs, sales, call, base, wset, held>>
    /\ LET input == call[p]
           item == Lookup(items, input.itemId) IN
        IF item = <<>>
        THEN /\ UNCHANGED <<items, movements, transactions, nextId, now>>
             /\ Done(p, ItemNotFound, <<>>)
        ELSE /\ items' = MapSet(items, IssueUpdated(item[1], input))
             /\ movements' = MapSet(movements, IssueMovement(input, nextId))
             /\ \E t \in ClockReadings :
                 /\ now' = t
                 /\ createTransactionFallback(
                        IssueTransactionInput(input, item[1]), nextId + 1, t)
             /\ nextId' = nextId + 2
             /\ Done(p, NoError, <<>>)

NewProject(input, id) ==
    [id |-> id, name |-> input.name, location |-> input.location,
     floors |-> input.floors, units |-> input.units,
     createdAt |-> input.createdAt]

createProject_fallback(p) ==
    /\ At(p, "createProject") /\ ~pool
    /\ projects' = MapSet(projects, NewProject(call[p], nextId))
    /\ nextId' = nextId + 1
    /\ UNCHANGED <<pool, transactions, items, movements, costs, sales,
                   now, call, base, wset, held>>
    /\ Done(p, NoError, <<>>)

\* a.date === b.date ? 0 : a.date > b.date ? -1 : 1 under Array.prototype.sort,
\* which is stable: insertion sort by date descending.
RECURSIVE InsertByDateDesc(_, _)
InsertByDateDesc(sorted, r) ==
    IF sorted = <<>> THEN <<r>>
    ELSE IF r.date > Head(sorted).date THEN <<r>> \o sorted
         ELSE <<Head(sorted)>> \o InsertByDateDesc(Tail(sorted), r)

RECURSIVE sortByDateDesc(_)
sortByDateDesc(rows) ==
    IF rows = <<>> THEN <<>>
    ELSE InsertByDateDesc(sortByDateDesc(SubSeq(rows, 1, Len(rows) - 1)),
                          rows[Len(rows)])

\* (mutant) the rows of every project
OfAnyProject(t, id) == t

OfProject(t, id) == SelectSeq(t, LAMBDA r : r.projectId = id)

\* fallbackStore.projects.get(id) ?? null   (<<>> is null)
getProjectByIdFallback(id) == Lookup(projects, id)

getProjectSnapshotFallback(id) ==
    LET project == getProjectByIdFallback(id) IN
    IF project = <<>> THEN <<>>
    ELSE <<[project |-> project[1],
            costs |-> sortByDateDesc(OfProject(costs, id)),
            sales |-> sortByDateDesc(OfProject(sales, id))]>>

getProjectById_fallback(p) ==
    /\ At(p, "getProjectById") /\ ~pool
    /\ UNCHANGED <<pool, tables, nextId, now, call, base, wset, held>>
    /\ Done(p, NoError, getProjectByIdFallback(call[p].id))

getProjectSnapshot_fallback(p) ==
    /\ At(p, "getProjectSnapshot") /\ ~pool
    /\ UNCHANGED <<pool, tables, nextId, now, call, base, wset, held>>
    /\ Done(p, NoError, getProjectSnapshotFallback(call[p].id))

\* (mutant) the rows of the project are kept
KeepRowsOfProject(t, id) == t

NotOfProject(t, id) == SelectSeq(t, LAMBDA r : r.projectId # id)

deleteProject_fallback(p) ==
    /\ At(p, "deleteProject") /\ ~pool
    /\ UNCHANGED <<pool, transactions, items, movements,
                   nextId, now, call, base, wset, held>>
    /\ IF ~Has(projects, call[p].id)
       THEN /\ UNCHANGED <<projects, costs, sales>>
            /\ Done(p, ProjectNotFound, <<>>)
       ELSE /\ projects' = MapDelete(projects, call[p].id)
            /\ costs' = NotOfProject(costs, call[p].id)
            /\ sales' = NotOfProject(sales, call[p].id)
            /\ Done(p, NoError, <<>>)

createProjectCost_fallback(p) ==
    /\ At(p, "createProjectCost") /\ ~pool
    /\ costs' = MapSet(costs, NewProjectCost(call[p], nextId))
    /\ \E t \in ClockReadings :
        /\ now' = t
        /\ createTransactionFallback(CostTransactionInput(call[p]),
                                     nextId + 1, t)
    /\ nextId' = nextId + 2
    /\ UNCHANGED <<pool, items, movements, projects, sales,
                   call, base, wset, held>>
    /\ Done(p, NoError, <<>>)

createProjectSale_fallback(p) ==
    /\ At(p, "createProjectSale") /\ ~pool
    /\ sales' = MapSet(sales, NewProjectSale(call[p], nextId))
    /\ \E t \in ClockReadings :
        /\ now' = t
        /\ createTransactionFallback(SaleTransactionInput(call[p]),
                                     nextId + 1, t)
    /\ nextId' = nextId + 2
    /\ UNCHANGED <<pool, items, movements, projects, costs,
                   call, base, wset, held>>
    /\ Done(p, NoError, <<>>)

\* ---------------------------------------------------------- relational path
\* The database is InnoDB: the statements of an open transaction are private
\* to its connection until COMMIT; an UPDATE or DELETE locks the rows it
\* touches until the transaction ends and waits for rows another transaction
\* has written; a plain SELECT takes no lock.

Autocommit ==
    {"createTransaction", "approveTransaction", "deleteTransaction",
     "createInventoryItem", "deleteInventoryItem", "createProject",
     "getProjectById", "getProjectSnapshot", "getAccountingSnapshot"}

\* rows of table t that an open transaction other than p's has written
LockedByOther(p, t, ids) ==
    \E q \in Procs \ {p} :
        \/ t = "items" /\ Ids(wset[q].items) \cap ids # {}
        \/ t = "sales" /\ wset[q].delSales \cap ids # {}
        \/ t = "costs" /\ wset[q].delCosts \cap ids # {}
        \/ t = "projects" /\ wset[q].delProjects \cap ids # {}

\* a row of project id that another open transaction has inserted
PendingInsert(p, t, id) ==
    \E q \in Procs \ {p} :
        \/ t = "sales" /\ OfProject(wset[q].sales, id) # <<>>
        \/ t = "costs" /\ OfProject(wset[q].costs, id) # <<>>

\* the project_id range of table t that another open transaction's DELETE
\* has scanned (InnoDB, REPEATABLE READ: the range stays locked against
\* inserts until that transaction ends)
RangeLockedByOther(p, t, id) ==
    \E q \in Procs \ {p} :
        \/ t = "sales" /\ id \in wset[q].gapSales
        \/ t = "costs" /\ id \in wset[q].gapCosts

\* pool.query(...) throws: the call fails before anything is written.
queryFails(p) ==
    /\ pc[p] = "pool" /\ pool /\ call[p].op \in Autocommit
    /\ UNCHANGED <<pool, tables, nextId, now, call, base, wset, held>>
    /\ Done(p, DbError, <<>>)

\* insertTransactionDb(input) without a connection: INSERT, then SELECT by id.
createTransaction_db(p) ==
    /\ At(p, "createTransaction") /\ pool
    /\ UNCHANGED <<pool, items, movements, projects, costs, sales,
                   call, base, wset, held>>
    /\ \E t \in ClockReadings :
        /\ now' = t
        /\ transactions' = Append(transactions,
                                  NewTransaction(call[p], nextId, t))
    /\ nextId' = nextId + 1
    /\ Done(p, NoError, <<>>)

\* (mutant) the UPDATE flips the flag
FlipApproved(t, id) ==
    [i \in 1..Len(t) |->
        IF t[i].id = id THEN [t[i] EXCEPT !.approved = ~@] ELSE t[i]]

\* (mutant) the UPDATE has no WHERE clause: every transaction is approved
SetApprovedEverywhere(t, id) ==
    [i \in 1..Len(t) |-> [t[i] EXCEPT !.approved = TRUE]]

\* UPDATE transactions SET approved = 1 WHERE id = ?
SetApproved(t, id) ==
    [i \in 1..Len(t) |->
        IF t[i].id = id THEN [t[i] EXCEPT !.approved = TRUE] ELSE t[i]]

approveTransaction_db(p) ==
    /\ At(p, "approveTransaction") /\ pool
    /\ UNCHANGED <<pool, items, movements, projects, costs, sales,
                   nextId, now, call, base, wset, held>>
    /\ transactions' = SetApproved(transactions, call[p].id)
    /\ IF Lookup(transactions', call[p].id) = <<>>
       THEN Done(p, TransactionNotFound, <<>>)
       ELSE Done(p, NoError, Lookup(transactions', call[p].id))

\* (mutant) the relational delete checks that the row exists
deleteTransactionDbChecked(p) ==
    /\ At(p, "deleteTransaction") /\ pool
    /\ UNCHANGED <<pool, items, movements, projects, costs, sales,
                   nextId, now, call, base, wset, held>>
    /\ transactions' = MapDelete(transactions, call[p].id)
    /\ IF Has(transactions, call[p].id)
       THEN Done(p, NoError, <<>>)
       ELSE Done(p, TransactionNotFound, <<>>)

deleteTransaction_db(p) ==
    /\ At(p, "deleteTransaction") /\ pool
    /\ UNCHANGED <<pool, items, movements, projects, costs, sales,
                   nextId, now, call, base, wset, held>>
    /\ transactions' = MapDelete(transactions, call[p].id)
    /\ Done(p, NoError, <<>>)

createInventoryItem_db(p) ==
    /\ At(p, "createInventoryItem") /\ pool
    /\ UNCHANGED <<pool, transactions, movements, projects, costs, sales,
                   now, call, base, wset, held>>
    /\ items' = Append(items, NewInventoryItem(call[p], nextId))
    /\ nextId' = nextId + 1
    /\ Done(p, NoError, <<>>)

\* DELETE FROM inventory_items WHERE id = ?  (no statement on the movements)
deleteInventoryItem_db(p) ==
    /\ At(p, "deleteInventoryItem") /\ pool
    /\ ~LockedByOther(p, "items", {call[p].id})
    /\ UNCHANGED <<pool, transactions, movements, projects, costs, sales,
                   nextId, now, call, base, wset, held>>
    /\ items' = MapDelete(items, call[p].id)
    /\ Done(p, NoError, <<>>)

createProject_db(p) ==
    /\ At(p, "createProject") /\ pool
    /\ UNCHANGED <<pool, transactions, items, movements, costs, sales,
                   now, call, base, wset, held>>
    /\ projects' = Append(projects, NewProject(call[p], nextId))
    /\ nextId' = nextId + 1
    /\ Done(p, NoError, <<>>)

\* SELECT ... FROM projects WHERE id = ? LIMIT 1
getProjectByIdDb(id) == Lookup(projects, id)

\* ORDER BY date DESC, created_at DESC: rows of one date, newest first. The
\* rows of a table are kept in the order of their creation.
RECURSIVE InsertByDateDescNewestFirst(_, _)
InsertByDateDescNewestFirst(sorted, r) ==
    IF sorted = <<>> THEN <<r>>
    ELSE IF r.date >= Head(sorted).date THEN <<r>> \o sorted
         ELSE <<Head(sorted)>> \o InsertByDateDescNewestFirst(Tail(sorted), r)

RECURSIVE OrderByDateDescCreatedDesc(_)
OrderByDateDescCreatedDesc(rows) ==
    IF rows = <<>> THEN <<>>
    ELSE InsertByDateDescNewestFirst(
             OrderByDateDescCreatedDesc(SubSeq(rows, 1, Len(rows) - 1)),
             rows[Len(rows)])

getProjectSnapshotDb(id) ==
    LET project == getProjectByIdDb(id) IN
    IF project = <<>> THEN <<>>
    ELSE <<[project |-> project[1],
            costs |-> OrderByDateDescCreatedDesc(OfProject(costs, id)),
            sales |-> OrderByDateDescCreatedDesc(OfProject(sales, id))]>>

getProjectById_db(p) ==
    /\ At(p, "getProjectById") /\ pool
    /\ UNCHANGED <<pool, tables, nextId, now, call, base, wset, held>>
    /\ Done(p, NoError, getProjectByIdDb(call[p].id))

getProjectSnapshot_db(p) ==
    /\ At(p, "getProjectSnapshot") /\ pool
    /\ UNCHANGED <<pool, tables, nextId, now, call, base, wset, held>>
    /\ Done(p, NoError, getProjectSnapshotDb(call[p].id))

\* ---- compound operations: getConnection, beginTransaction, the statements,
\* ---- commit; catch: rollback, rethrow; finally: release.
InTry ==
    {"begin", "lookup", "update", "insert", "insertTransaction",
     "delSales", "delCosts", "delProject", "commit"}

FirstStatement(op) ==
    IF op \in {"createProjectCost", "createProjectSale"} THEN "insert"
    ELSE "lookup"

\* const conn = await pool.getConnection(): outside the try block.
getConnection(p) ==
    /\ pc[p] = "pool" /\ pool /\ call[p].op \in Compound
    /\ UNCHANGED <<pool, tables, nextId, now, call, base, wset, ret, err>>
    /\ held' = [held EXCEPT ![p] = @ + 1]
    /\ Goto(p, "begin")
    /\ Dirty(p)

\* pool.getConnection() throws: nothing to roll back or release.
getConnectionFails(p) ==
    /\ pc[p] = "pool" /\ pool /\ call[p].op \in Compound
    /\ UNCHANGED <<pool, tables, nextId, now, call, base, wset, held>>
    /\ Done(p, DbError, <<>>)

\* await conn.beginTransaction()
beginTransaction(p) ==
    /\ pc[p] = "begin" /\ pool
    /\ UNCHANGED <<pool, tables, nextId, now, call, base, wset, held, ret, err>>
    /\ Goto(p, FirstStatement(call[p].op))
    /\ Dirty(p)

\* Any awaited call of the try block (beginTransaction and commit included)
\* may throw.
statementFails(p) ==
    /\ pc[p] \in InTry /\ pool
    /\ UNCHANGED <<pool, tables, nextId, now, call, base, wset, held, ret>>
    /\ Goto(p, "rollback") /\ Throw(p, DbError)
    /\ Dirty(p)

\* getItemRowForUpdate(conn, input.itemId): a plain SELECT.
getItemRowForUpdate(p) ==
    /\ pc[p] = "lookup" /\ pool
    /\ call[p].op \in {"recordInventoryReceipt", "recordInventoryIssue"}
    /\ UNCHANGED <<pool, tables, nextId, now, call, wset, held, ret>>
    /\ LET rows == Lookup(items, call[p].itemId) IN
        IF rows = <<>>
        THEN /\ UNCHANGED base
             /\ Goto(p, "rollback") /\ Throw(p, ItemNotFound)
        ELSE /\ base' = [base EXCEPT ![p] = rows]
             /\ Goto(p, "update") /\ UNCHANGED err
    /\ Dirty(p)

\* (mutant) the receipt stores the received amount instead of adding it
UpdatedRowOverwrite(current, baseRow, input) ==
    [current EXCEPT !.quantity = input.qty, !.updatedAt = input.date]

\* The row as the UPDATE writes it. A receipt adds to the current quantity
\* (SET quantity = quantity + ?); an issue stores the quantity computed from
\* the row read before (SET quantity = ?).
UpdatedRow(current, baseRow, input) ==
    IF input.op = "recordInventoryReceipt"
    THEN [current EXCEPT !.quantity = current.quantity + input.qty,
                         !.updatedAt = input.date]
    ELSE [current EXCEPT !.quantity =
                             NextQuantity(baseRow.quantity, input.qty),
                         !.updatedAt = input.date]

\* UPDATE inventory_items ... WHERE id = ?, then getItemRowForUpdate again.
\* If the row has been deleted since the first lookup the UPDATE matches
\* nothing, and the second SELECT either finds no row or (under a repeatable
\* read view) still returns the row first read.
updateItem(p) ==
    /\ pc[p] = "update" /\ pool
    /\ ~LockedByOther(p, "items", {call[p].itemId})
    /\ UNCHANGED <<pool, tables, nextId, now, call, base, held, ret>>
    /\ LET current == Lookup(items, call[p].itemId) IN
        IF current # <<>>
        THEN /\ wset' = [wset EXCEPT ![p].items =
                            <<UpdatedRow(current[1], base[p][1], call[p])>>]
             /\ Goto(p, "insert") /\ UNCHANGED err
        ELSE /\ UNCHANGED wset
             /\ \/ Goto(p, "insert") /\ UNCHANGED err
                \/ Goto(p, "rollback") /\ Throw(p, ItemNotFound)
    /\ Dirty(p)

\* INSERT INTO inventory_movements / project_costs / project_sales. The
\* collections hold the records as the row mappers return them.
insertRow(p) ==
    /\ pc[p] = "insert" /\ pool
    /\ call[p].op = "createProjectCost"
        => ~RangeLockedByOther(p, "costs", call[p].projectId)
    /\ call[p].op = "createProjectSale"
        => ~RangeLockedByOther(p, "sales", call[p].projectId)
    /\ UNCHANGED <<pool, tables, now, call, base, held, ret, err>>
    /\ wset' = [wset EXCEPT ![p] =
            IF call[p].op = "recordInventoryReceipt"
            THEN [@ EXCEPT !.movements = <<ReceiptMovement(call[p], nextId)>>]
            ELSE IF call[p].op = "recordInventoryIssue"
            THEN [@ EXCEPT !.movements = <<IssueMovement(call[p], nextId)>>]
            ELSE IF call[p].op = "createProjectCost"
            THEN [@ EXCEPT !.costs =
                    <<mapProjectCostRow(ProjectCostRow(call[p], nextId))>>]
            ELSE [@ EXCEPT !.sales =
                    <<mapProjectSaleRow(ProjectSaleRow(call[p], nextId))>>]]
    /\ nextId' = nextId + 1
    /\ Goto(p, "insertTransaction")
    /\ Dirty(p)

DerivedTransactionInput(input, baseRows) ==
    IF input.op = "recordInventoryReceipt"
    THEN ReceiptTransactionInput(input, baseRows[1])
    ELSE IF input.op = "recordInventoryIssue"
    THEN IssueTransactionInput(input, baseRows[1])
    ELSE IF input.op = "createProjectCost"
    THEN CostTransactionInput(input)
    ELSE SaleTransactionInput(input)

\* insertTransactionDb(input, conn)
insertTransactionDb(p) ==
    /\ pc[p] = "insertTransaction" /\ pool
    /\ UNCHANGED <<pool, tables, call, base, held, ret, err>>
    /\ \E t \in ClockReadings :
        /\ now' = t
        /\ wset' = [wset EXCEPT ![p].transactions =
                <<NewTransaction(DerivedTransactionInput(call[p], base[p]),
                                 nextId, t)>>]
    /\ nextId' = nextId + 1
    /\ Goto(p, "commit")
    /\ Dirty(p)

\* SELECT id FROM projects WHERE id = ? LIMIT 1
lookupProject(p) ==
    /\ pc[p] = "lookup" /\ pool /\ call[p].op = "deleteProject"
    /\ UNCHANGED <<pool, tables, nextId, now, call, base, wset, held, ret>>
    /\ IF Lookup(projects, call[p].id) = <<>>
       THEN Goto(p, "rollback") /\ Throw(p, ProjectNotFound)
       ELSE Goto(p, "delSales") /\ UNCHANGED err
    /\ Dirty(p)

\* (mutant) the DELETE is sent outside the transaction
deleteSalesOutsideTransaction(p) ==
    /\ pc[p] = "delSales" /\ pool
    /\ LET ids == Ids(OfProject(sales, call[p].id)) IN
        /\ ~LockedByOther(p, "sales", ids)
        /\ ~PendingInsert(p, "sales", call[p].id)
        /\ sales' = SelectSeq(sales, LAMBDA r : r.id \notin ids)
    /\ UNCHANGED <<pool, transactions, items, movements, projects, costs,
                   nextId, now, call, base, held, ret, err, wset>>
    /\ Goto(p, "delCosts")
    /\ Dirty(p)

\* DELETE FROM project_sales WHERE project_id = ?
deleteSales(p) ==
    /\ pc[p] = "delSales" /\ pool
    /\ LET ids == Ids(OfProject(sales, call[p].id)) IN
        /\ ~LockedByOther(p, "sales", ids)
        /\ ~PendingInsert(p, "sales", call[p].id)
        /\ wset' = [wset EXCEPT ![p].delSales = ids,
                                ![p].gapSales = {call[p].id}]
    /\ UNCHANGED <<pool, tables, nextId, now, call, base, held, ret, err>>
    /\ Goto(p, "delCosts")
    /\ Dirty(p)

\* DELETE FROM project_costs WHERE project_id = ?
deleteCosts(p) ==
    /\ pc[p] = "delCosts" /\ pool
    /\ LET ids == Ids(OfProject(costs, call[p].id)) IN
        /\ ~LockedByOther(p, "costs", ids)
        /\ ~PendingInsert(p, "costs", call[p].id)
        /\ wset' = [wset EXCEPT ![p].delCosts = ids,
                                ![p].gapCosts = {call[p].id}]
    /\ UNCHANGED <<pool, tables, nextId, now, call, base, held, ret, err>>
    /\ Goto(p, "delProject")
    /\ Dirty(p)

\* DELETE FROM projects WHERE id = ?
deleteProjectRow(p) ==
    /\ pc[p] = "delProject" /\ pool
    /\ LET ids == Ids(projects) \cap {call[p].id} IN
        /\ ~LockedByOther(p, "projects", ids)
        /\ wset' = [wset EXCEPT ![p].delProjects = ids]
    /\ UNCHANGED <<pool, tables, nextId, now, call, base, held, ret, err>>
    /\ Goto(p, "commit")
    /\ Dirty(p)

\* (mutant) the UPDATE has no WHERE clause: every row takes the new quantity
UpdateRowsNoWhere(t, updated) ==
    [i \in 1..Len(t) |->
        IF updated = <<>> THEN t[i]
        ELSE [t[i] EXCEPT !.quantity = updated[1].quantity]]

\* the rows of t with those a transaction updated, inserted and deleted
UpdateRows(t, updated) ==
    [i \in 1..Len(t) |->
        IF Has(updated, t[i].id) THEN Lookup(updated, t[i].id)[1] ELSE t[i]]

DeleteRows(t, ids) == SelectSeq(t, LAMBDA r : r.id \notin ids)

CommittedItems(w) == UpdateRows(items, w.items)
\* (mutant) the INSERT also rewrites the total of the earlier movements of the
\* same item
CommittedMovementsRetotalled(w) ==
    [i \in 1..Len(movements) |->
        IF \E j \in 1..Len(w.movements) :
               w.movements[j].itemId = movements[i].itemId
        THEN [movements[i] EXCEPT !.total = @ + w.movements[1].total]
        ELSE movements[i]] \o w.movements

CommittedMovements(w) == movements \o w.movements

CommittedTransactions(w) == transactions \o w.transactions
CommittedCosts(w) == DeleteRows(costs \o w.costs, w.delCosts)
CommittedSales(w) == DeleteRows(sales \o w.sales, w.delSales)
CommittedProjects(w) == DeleteRows(projects, w.delProjects)

\* conn.commit(): every write of the transaction becomes visible at once.
commit(p) ==
    /\ pc[p] = "commit" /\ pool
    /\ items' = CommittedItems(wset[p])
    /\ movements' = CommittedMovements(wset[p])
    /\ transactions' = CommittedTransactions(wset[p])
    /\ costs' = CommittedCosts(wset[p])
    /\ sales' = CommittedSales(wset[p])
    /\ projects' = CommittedProjects(wset[p])
    /\ wset' = [wset EXCEPT ![p] = EmptyWset]
    /\ UNCHANGED <<pool, nextId, now, call, base, held, ret, err>>
    /\ Goto(p, "release")
    /\ Dirty(p)

\* (mutant) the writes of the failed transaction stay
rollbackKeepsWrites(p) ==
    /\ pc[p] = "rollback" /\ pool
    /\ items' = CommittedItems(wset[p])
    /\ movements' = CommittedMovements(wset[p])
    /\ transactions' = CommittedTransactions(wset[p])
    /\ costs' = CommittedCosts(wset[p])
    /\ sales' = CommittedSales(wset[p])
    /\ projects' = CommittedProjects(wset[p])
    /\ wset' = [wset EXCEPT ![p] = EmptyWset]
    /\ UNCHANGED <<pool, nextId, now, call, base, held, ret, err>>
    /\ Goto(p, "release")
    /\ Dirty(p)

\* catch (error) { await conn.rollback(); throw error; }
\* The server discards the writes of the transaction.
rollback(p) ==
    /\ pc[p] = "rollback" /\ pool
    /\ wset' = [wset EXCEPT ![p] = EmptyWset]
    /\ UNCHANGED <<pool, tables, nextId, now, call, base, held, ret, err>>
    /\ Goto(p, "release")
    /\ Dirty(p)

\* (mutant) conn.release() is not in a finally block: an error thrown by
\* conn.rollback() leaves the function past it
rollbackFailsSkipsRelease(p) ==
    /\ pc[p] = "rollback" /\ pool
    /\ wset' = [wset EXCEPT ![p] = EmptyWset]
    /\ UNCHANGED <<pool, tables, nextId, now, call, base, held>>
    /\ Done(p, RollbackError, <<>>)

\* conn.rollback() throws (the connection is lost, and the server then aborts
\* the transaction): its error replaces the one caught.
rollbackFails(p) ==
    /\ pc[p] = "rollback" /\ pool
    /\ wset' = [wset EXCEPT ![p] = EmptyWset]
    /\ UNCHANGED <<pool, tables, nextId, now, call, base, held, ret>>
    /\ Throw(p, RollbackError)
    /\ Goto(p, "release")
    /\ Dirty(p)

\* finally { conn.release(); }
release(p) ==
    /\ pc[p] = "release" /\ pool
    /\ held' = [held EXCEPT ![p] = @ - 1]
    /\ UNCHANGED <<pool, tables, nextId, now, call, base, wset>>
    /\ Done(p, err[p], <<>>)

\* ----------------------------------------------------------- full snapshot
\* [...rows].sort(cmp), where Before(a, b) is cmp(a, b) < 0: a stable sort,
\* rows that compare equal keep the order they had.
StableSort(rows, before) ==
    LET n == Len(rows)
        rank(i) ==
            Cardinality({j \in 1..n :
                j # i /\ \/ before[j, i]
                         \/ ~before[i, j] /\ j < i}) + 1
    IN [k \in 1..n |-> rows[CHOOSE i \in 1..n : rank(i) = k]]

\* (mutant) the comparison looks at the date only
TransactionBeforeByDateOnly(a, b) == a.date > b.date

\* a.date === b.date ? (ca === cb ? 0 : ca > cb ? -1 : 1) : a.date > b.date ? -1 : 1
TransactionBefore(a, b) ==
    IF a.date = b.date THEN a.createdAt > b.createdAt ELSE a.date > b.date

sortTransactions(rows) ==
    StableSort(rows, [i, j \in 1..Len(rows) |-> TransactionBefore(rows[i], rows[j])])

DateBefore(a, b) == a.date > b.date

UpdatedAtBefore(a, b) == a.updatedAt > b.updatedAt

CreatedAtBefore(a, b) == a.createdAt > b.createdAt

\* (mutant) the movements are returned as stored
movementsAsStored(rows) == rows

sortTransactionsFallbackMovements(rows) ==
    StableSort(rows, [i, j \in 1..Len(rows) |-> DateBefore(rows[i], rows[j])])

sortTransactionsFallback(rows) == sortByDateDesc(rows)

getFallbackSnapshot ==
    [transactions |-> sortTransactions(transactions),
     items |-> StableSort(items,
        [i, j \in 1..Len(items) |-> UpdatedAtBefore(items[i], items[j])]),
     movements |-> sortTransactionsFallbackMovements(movements),
     projects |-> StableSort(projects,
        [i, j \in 1..Len(projects) |-> CreatedAtBefore(projects[i], projects[j])]),
     costs |-> sortTransactionsFallback(costs),
     sales |-> sortTransactionsFallback(sales)]

getAccountingSnapshot_fallback(p) ==
    /\ At(p, "getAccountingSnapshot") /\ ~pool
    /\ UNCHANGED <<pool, tables, nextId, now, call, base, wset, held>>
    /\ Done(p, NoError, <<getFallbackSnapshot>>)

\* The order of names in an ORDER BY ... name ASC.
NameRank(name) == IF name = "A" THEN 1 ELSE IF name = "B" THEN 2 ELSE 3

\* ORDER BY updated_at DESC, name ASC
ItemRowBefore(a, b) ==
    \/ a.updatedAt > b.updatedAt
    \/ a.updatedAt = b.updatedAt /\ NameRank(a.name) < NameRank(b.name)

\* ORDER BY created_at DESC, name ASC
ProjectRowBefore(a, b) ==
    \/ a.createdAt > b.createdAt
    \/ a.createdAt = b.createdAt /\ NameRank(a.name) < NameRank(b.name)

\* The answers a SELECT ... ORDER BY may give: the rows in any order that
\* agrees with the sort keys (rows equal on every key come in either order).
Orderings(rows, before) ==
    LET n == Len(rows)
        perms == {f \in [1..n -> 1..n] :
                    /\ \A i, j \in 1..n : i # j => f[i] # f[j]
                    /\ \A i, j \in 1..n :
                        i < j => ~before[f[j], f[i]]}
    IN {[k \in 1..n |-> rows[f[k]]] : f \in perms}

TransactionRowOrders ==
    Orderings(transactions, [i, j \in 1..Len(transactions) |-> TransactionBefore(transactions[i], transactions[j])])

ItemRowOrders ==
    Orderings(items, [i, j \in 1..Len(items) |-> ItemRowBefore(items[i], items[j])])

ProjectRowOrders ==
    Orderings(projects, [i, j \in 1..Len(projects) |-> ProjectRowBefore(projects[i], projects[j])])

SnapshotSteps ==
    {"snapItems", "snapMovements", "snapProjects", "snapCosts", "snapSales"}

\* One query of getAccountingSnapshot has answered: its rows are kept and
\* the next query is sent.
Answered(p, field, rows, next) ==
    /\ UNCHANGED <<pool, tables, nextId, now, call, base, wset, held>>
    /\ IF next = "done"
       THEN Done(p, NoError, <<ret[p][1] @@ (field :> rows)>>)
       ELSE /\ ret' = [ret EXCEPT ![p] =
                    IF @ = <<>> THEN <<(field :> rows)>>
                    ELSE <<@[1] @@ (field :> rows)>>]
            /\ Goto(p, next) /\ UNCHANGED err
            /\ Dirty(p)

snapshotTransactions(p) ==
    /\ At(p, "getAccountingSnapshot") /\ pool
    /\ \E rows \in TransactionRowOrders :
        Answered(p, "transactions", rows, "snapItems")

snapshotItems(p) ==
    /\ pc[p] = "snapItems" /\ pool
    /\ \E rows \in ItemRowOrders :
        Answered(p, "items", rows, "snapMovements")

snapshotMovements(p) ==
    /\ pc[p] = "snapMovements" /\ pool
    /\ Answered(p, "movements", OrderByDateDescCreatedDesc(movements),
                "snapProjects")

snapshotProjects(p) ==
    /\ pc[p] = "snapProjects" /\ pool
    /\ \E rows \in ProjectRowOrders :
        Answered(p, "projects", rows, "snapCosts")

snapshotCosts(p) ==
    /\ pc[p] = "snapCosts" /\ pool
    /\ Answered(p, "costs", OrderByDateDescCreatedDesc(costs), "snapSales")

snapshotSales(p) ==
    /\ pc[p] = "snapSales" /\ pool
    /\ Answered(p, "sales", OrderByDateDescCreatedDesc(sales), "done")

\* One of the later queries of getAccountingSnapshot is rejected.
snapshotQueryFails(p) ==
    /\ pc[p] \in SnapshotSteps /\ pool
    /\ UNCHANGED <<pool, tables, nextId, now, call, base, wset, held>>
    /\ Done(p, DbError, <<>>)

\* --------------------------------------------------------- specifications
InitProcs ==
    /\ now = 0
    /\ pc = [p \in Procs |-> "idle"]
    /\ call = [p \in Procs |-> NoCall]
    /\ err = [p \in Procs |-> NoError]
    /\ base = [p \in Procs |-> <<>>]
    /\ wset = [p \in Procs |-> EmptyWset]
    /\ held = [p \in Procs |-> 0]
    /\ dirty = [p \in Procs |-> FALSE]
    /\ ret = [p \in Procs |-> <<>>]

\* The store of a freshly started server, with or without MySQL configured.
Init ==
    /\ pool \in BOOLEAN
    /\ transactions = <<>> /\ items = <<>> /\ movements = <<>>
    /\ projects = <<>> /\ costs = <<>> /\ sales = <<>>
    /\ nextId = Len(items) + 1
    /\ InitProcs

CallInventory(p, flags, cap) ==
    \E c \in ReceiptInputs(Nameable(items, p), flags)
             \cup IssueInputs(Nameable(items, p), flags)
             \cup IdInputs("deleteInventoryItem", Nameable(items, p))
             \cup {i \in ItemInputs : Len(items) < MaxRows} :
        Call(p, c, cap)

InventoryFallback(p) ==
    \/ createInventoryItem_fallback(p)
    \/ deleteInventoryItem_fallback(p)
    \/ recordInventoryReceipt_fallback(p)
    \/ recordInventoryIssue_fallback(p)

InventoryDb(p) ==
    \/ createInventoryItem_db(p)
    \/ deleteInventoryItem_db(p)
    \/ getConnection(p)
    \/ beginTransaction(p)
    \/ getItemRowForUpdate(p)
    \/ updateItem(p)
    \/ insertRow(p)
    \/ insertTransactionDb(p)
    \/ commit(p)
    \/ rollback(p)
    \/ release(p)

DbFault(p) ==
    \/ queryFails(p)
    \/ getConnectionFails(p)
    \/ statementFails(p)
    \/ rollbackFails(p)

\* Inventory requests, one at a time, on either path; any database call may
\* fail.
Next ==
    \/ CallInventory(1, BOOLEAN, MaxId)
    \/ InventoryFallback(1)
    \/ InventoryDb(1)
    \/ DbFault(1)

Spec == Init /\ [][Next]_vars

\* Concurrent inventory requests, one store call each, against a store that
\* holds no item or one item; the database answers every call. (On the
\* fallback path the bodies are synchronous and only their order varies.)
ConcInit ==
    /\ pool \in BOOLEAN
    /\ items \in {<<>>} \cup
                 {<<NewInventoryItem(i, 1)>> : i \in ItemInputs}
    /\ transactions = <<>> /\ movements = <<>>
    /\ projects = <<>> /\ costs = <<>> /\ sales = <<>>
    /\ nextId = Len(items) + 1
    /\ InitProcs

ConcNext ==
    \E p \in Procs :
        \/ pc[p] = "idle" /\ CallInventory(p, {FALSE}, MaxConcId)
        \/ InventoryFallback(p)
        \/ InventoryDb(p)

ConcSpec == ConcInit /\ [][ConcNext]_vars

CallProject(p, flags, cap) ==
    \E c \in CostInputs(Nameable(projects, p), flags)
             \cup SaleInputs(Nameable(projects, p), flags)
             \cup IdInputs("deleteProject", Nameable(projects, p))
             \cup IdInputs("getProjectById", Nameable(projects, p))
             \cup IdInputs("getProjectSnapshot", Nameable(projects, p))
             \cup {i \in ProjectInputs : Len(projects) < MaxRows} :
        Call(p, c, cap)

ProjectFallback(p) ==
    \/ createProject_fallback(p)
    \/ getProjectById_fallback(p)
    \/ getProjectSnapshot_fallback(p)
    \/ deleteProject_fallback(p)
    \/ createProjectCost_fallback(p)
    \/ createProjectSale_fallback(p)

ProjectDb(p) ==
    \/ createProject_db(p)
    \/ getProjectById_db(p)
    \/ getProjectSnapshot_db(p)
    \/ getConnection(p)
    \/ beginTransaction(p)
    \/ insertRow(p)
    \/ insertTransactionDb(p)
    \/ lookupProject(p)
    \/ deleteSales(p)
    \/ deleteCosts(p)
    \/ deleteProjectRow(p)
    \/ commit(p)
    \/ rollback(p)
    \/ release(p)

\* Project requests, one at a time, on either path; any database call may
\* fail.
ProjectNext ==
    \/ CallProject(1, BOOLEAN, MaxProjectId)
    \/ ProjectFallback(1)
    \/ ProjectDb(1)
    \/ DbFault(1)

\* A store that has served createProject twice and then createProjectCost
\* and createProjectSale for each project, unapproved.
SeedProject == CHOOSE i \in ProjectInputs : TRUE

SeedCost(id) == CHOOSE c \in CostInputs({id}, {FALSE}) : c.type = "construction"

SeedSale(id) == CHOOSE c \in SaleInputs({id}, {FALSE}) : TRUE

ProjectInit ==
    /\ pool \in BOOLEAN
    /\ items = <<>> /\ movements = <<>>
    /\ projects = <<NewProject(SeedProject, 1), NewProject(SeedProject, 2)>>
    /\ costs = <<NewProjectCost(SeedCost(1), 3), NewProjectCost(SeedCost(2), 7)>>
    /\ sales = <<NewProjectSale(SeedSale(1), 5), NewProjectSale(SeedSale(2), 9)>>
    /\ transactions =
        <<NewTransaction(CostTransactionInput(SeedCost(1)), 4, 0),
          NewTransaction(SaleTransactionInput(SeedSale(1)), 6, 0),
          NewTransaction(CostTransactionInput(SeedCost(2)), 8, 0),
          NewTransaction(SaleTransactionInput(SeedSale(2)), 10, 0)>>
    /\ nextId = Len(projects) + Len(costs) + Len(sales) + Len(transactions) + 1
    /\ InitProcs

ProjectSpec == ProjectInit /\ [][ProjectNext]_vars

\* A store that has served createInventoryItem, createProject,
\* createProjectCost and createProjectSale once each.
SeedItem == CHOOSE i \in ItemInputs : i.quantity = 1

CompoundInit ==
    /\ pool \in BOOLEAN
    /\ items = <<NewInventoryItem(SeedItem, 1)>> /\ movements = <<>>
    /\ projects = <<NewProject(SeedProject, 2)>>
    /\ costs = <<NewProjectCost(SeedCost(2), 3)>>
    /\ sales = <<NewProjectSale(SeedSale(2), 5)>>
    /\ transactions =
        <<NewTransaction(CostTransactionInput(SeedCost(2)), 4, 0),
          NewTransaction(SaleTransactionInput(SeedSale(2)), 6, 0)>>
    /\ nextId = Len(items) + Len(projects) + Len(costs) + Len(sales)
                    + Len(transactions) + 1
    /\ InitProcs

CallCompound(p, flags, cap) ==
    \E c \in ReceiptInputs(Nameable(items, p), flags)
             \cup IssueInputs(Nameable(items, p), flags)
             \cup CostInputs(Nameable(projects, p), flags)
             \cup SaleInputs(Nameable(projects, p), flags)
             \cup IdInputs("deleteProject", Nameable(projects, p)) :
        Call(p, c, cap)

CompoundFallback(p) ==
    \/ recordInventoryReceipt_fallback(p)
    \/ recordInventoryIssue_fallback(p)
    \/ createProjectCost_fallback(p)
    \/ createProjectSale_fallback(p)
    \/ deleteProject_fallback(p)

CompoundDb(p) ==
    \/ getConnection(p)
    \/ beginTransaction(p)
    \/ getItemRowForUpdate(p)
    \/ updateItem(p)
    \/ insertRow(p)
    \/ insertTransactionDb(p)
    \/ lookupProject(p)
    \/ deleteSales(p)
    \/ deleteCosts(p)
    \/ deleteProjectRow(p)
    \/ commit(p)
    \/ rollback(p)
    \/ release(p)

CompoundFault(p) ==
    \/ getConnectionFails(p)
    \/ statementFails(p)
    \/ rollbackFails(p)

\* Concurrent requests, one compound operation each; any call on a
\* connection may fail.
CompoundNext ==
    \E p \in Procs :
        \/ pc[p] = "idle" /\ CallCompound(p, {FALSE}, MaxCompoundId)
        \/ CompoundFallback(p)
        \/ CompoundDb(p)
        \/ CompoundFault(p)

CompoundSpec == CompoundInit /\ [][CompoundNext]_vars

CallLedger(p, cap) ==
    \E c \in {i \in TransactionInputs : Len(transactions) < MaxRows}
             \cup IdInputs("approveTransaction", Nameable(transactions, p))
             \cup IdInputs("deleteTransaction", Nameable(transactions, p)) :
        Call(p, c, cap)

LedgerFallback(p) ==
    \/ createTransaction_fallback(p)
    \/ approveTransaction_fallback(p)
    \/ deleteTransaction_fallback(p)

LedgerDb(p) ==
    \/ createTransaction_db(p)
    \/ approveTransaction_db(p)
    \/ deleteTransaction_db(p)
    \/ queryFails(p)

\* Ledger requests, one at a time, on either path; any query may fail.
LedgerNext ==
    \/ CallLedger(1, MaxId)
    \/ LedgerFallback(1)
    \/ LedgerDb(1)

LedgerSpec == Init /\ [][LedgerNext]_vars

\* A store that has served createInventoryItem twice and then
\* recordInventoryReceipt once for each item.
SeedReceipt(id) == CHOOSE r \in ReceiptInputs({id}, {FALSE}) : r.qty = 1

SeedStocked(id) == ReceiptUpdated(NewInventoryItem(SeedItem, id), SeedReceipt(id))

StockInit ==
    /\ pool \in BOOLEAN
    /\ items = <<SeedStocked(1), SeedStocked(2)>>
    /\ movements = <<ReceiptMovement(SeedReceipt(1), 3),
                     ReceiptMovement(SeedReceipt(2), 5)>>
    /\ transactions =
        <<NewTransaction(ReceiptTransactionInput(SeedReceipt(1), SeedItem), 4, 0),
          NewTransaction(ReceiptTransactionInput(SeedReceipt(2), SeedItem), 6, 0)>>
    /\ projects = <<>> /\ costs = <<>> /\ sales = <<>>
    /\ nextId = Len(items) + Len(movements) + Len(transactions) + 1
    /\ InitProcs

\* Inventory requests on a stocked store, one at a time, on either path; any
\* database call may fail.
StockNext ==
    \/ CallInventory(1, {FALSE}, MaxStockId)
    \/ InventoryFallback(1)
    \/ InventoryDb(1)
    \/ DbFault(1)

StockSpec == StockInit /\ [][StockNext]_vars

\* Stored sets to sort. The i-th record of every collection was created i-th
\* and carries the i-th sort key: its date (updatedAt of an item, createdAt of
\* a project) and the clock reading at its creation, which does not go back.
\* Of two items or projects made at different readings the earlier is named
\* "B" and the later "A".
SortKeys == [date : 1..MaxSortLen, stamp : {0, 1}]

SortKeySeqs ==
    UNION {{ks \in [1..n -> SortKeys] :
                \A i, j \in 1..n : i < j => ks[i].stamp <= ks[j].stamp} :
           n \in 0..MaxSortLen}

SortName(k) == IF k.stamp = 0 THEN "B" ELSE "A"

SeedTransaction ==
    CHOOSE i \in TransactionInputs : i.type = "expense" /\ ~i.approved

SortInit ==
    /\ pool \in BOOLEAN
    /\ \E ks \in SortKeySeqs :
        /\ transactions =
            [i \in DOMAIN ks |->
                [NewTransaction(SeedTransaction, i, ks[i].stamp)
                    EXCEPT !.date = ks[i].date]]
        /\ items =
            [i \in DOMAIN ks |->
                [NewInventoryItem(SeedItem, i)
                    EXCEPT !.name = SortName(ks[i]),
                           !.updatedAt = ks[i].date]]
        /\ movements =
            [i \in DOMAIN ks |->
                [ReceiptMovement(SeedReceipt(1), i) EXCEPT !.date = ks[i].date]]
        /\ projects =
            [i \in DOMAIN ks |->
                [NewProject(SeedProject, i)
                    EXCEPT !.name = SortName(ks[i]),
                           !.createdAt = ks[i].date]]
        /\ costs =
            [i \in DOMAIN ks |->
                [NewProjectCost(SeedCost(ks[i].stamp + 1), i)
                    EXCEPT !.date = ks[i].date]]
        /\ sales =
            [i \in DOMAIN ks |->
                [NewProjectSale(SeedSale(ks[i].stamp + 1), i)
                    EXCEPT !.date = ks[i].date]]
    /\ nextId = Len(transactions) + 1
    /\ InitProcs

CallSnapshot(p) == Call(p, [op |-> "getAccountingSnapshot"], nextId)

CallProjectSnapshot(p) ==
    \E c \in IdInputs("getProjectSnapshot", Ids(projects) \cup {UnknownId}) :
        Call(p, c, nextId)

\* Snapshot reads of a stored set, on either path; any query may fail.
SortNext ==
    \/ CallSnapshot(1)
    \/ CallProjectSnapshot(1)
    \/ getProjectSnapshot_fallback(1)
    \/ getProjectSnapshot_db(1)
    \/ getAccountingSnapshot_fallback(1)
    \/ snapshotTransactions(1)
    \/ snapshotItems(1)
    \/ snapshotMovements(1)
    \/ snapshotProjects(1)
    \/ snapshotCosts(1)
    \/ snapshotSales(1)
    \/ queryFails(1)
    \/ snapshotQueryFails(1)

SortSpec == SortInit /\ [][SortNext]_vars

\* What createProjectSaleHandler passes as terms (body.terms ?? null): null,
\* the empty string of a form field left blank, or a text.
Terms == {null, "", "cash"}

SaleInputsOnTerms(ids, flags) ==
    {[c EXCEPT !.terms = t] : c \in SaleInputs(ids, flags), t \in Terms}

CallSequential(p, cap) ==
    \E c \in {i \in ItemInputs : Len(items) < MaxSeqRows /\ i.quantity = 1}
             \cup ReceiptInputs(Nameable(items, p), {FALSE})
             \cup IssueInputs(Nameable(items, p), {FALSE})
             \cup {i \in ProjectInputs : Len(projects) < MaxSeqRows}
             \cup {i \in CostInputs(Nameable(projects, p), {FALSE}) :
                        i.type = "expense"}
             \cup SaleInputsOnTerms(Nameable(projects, p), {FALSE})
             \cup IdInputs("deleteProject", Nameable(projects, p))
             \cup {i \in TransactionInputs :
                        i.type = "revenue" /\ ~i.approved}
             \cup IdInputs("approveTransaction", Nameable(transactions, p)) :
        Call(p, c, cap)

SequentialFallback(p) ==
    \/ createInventoryItem_fallback(p)
    \/ recordInventoryReceipt_fallback(p)
    \/ recordInventoryIssue_fallback(p)
    \/ createProject_fallback(p)
    \/ createProjectCost_fallback(p)
    \/ createProjectSale_fallback(p)
    \/ deleteProject_fallback(p)
    \/ createTransaction_fallback(p)
    \/ approveTransaction_fallback(p)

SequentialDb(p) ==
    \/ createInventoryItem_db(p)
    \/ createProject_db(p)
    \/ createTransaction_db(p)
    \/ approveTransaction_db(p)
    \/ getConnection(p)
    \/ beginTransaction(p)
    \/ getItemRowForUpdate(p)
    \/ updateItem(p)
    \/ insertRow(p)
    \/ insertTransactionDb(p)
    \/ lookupProject(p)
    \/ deleteSales(p)
    \/ deleteCosts(p)
    \/ deleteProjectRow(p)
    \/ commit(p)
    \/ rollback(p)
    \/ release(p)

\* Requests of the nine writing operations, one at a time, on either path;
\* the database answers every call.
SequentialNext ==
    \/ CallSequential(1, MaxSeqId)
    \/ SequentialFallback(1)
    \/ SequentialDb(1)

SequentialSpec == Init /\ [][SequentialNext]_vars

CallStock(p, cap) ==
    \E c \in ReceiptInputs(Ids(items), {FALSE})
             \cup IssueInputs(Ids(items), {FALSE}) :
        Call(p, c, cap)

\* Two requests at once, one receipt or issue each, on a stocked store; the
\* database answers every call.
RaceNext ==
    \E p \in Procs :
        \/ pc[p] = "idle" /\ CallStock(p, MaxRaceId)
        \/ recordInventoryReceipt_fallback(p)
        \/ recordInventoryIssue_fallback(p)
        \/ getConnection(p)
        \/ beginTransaction(p)
        \/ getItemRowForUpdate(p)
        \/ updateItem(p)
        \/ insertRow(p)
        \/ insertTransactionDb(p)
        \/ commit(p)
        \/ release(p)

RaceSpec == StockInit /\ [][RaceNext]_vars

\* The ids a request names: those of the stored rows and one that matches none.
Known(t) == Ids(t) \cup {UnknownId}

CallAny(p, cap) ==
    \E c \in {i \in TransactionInputs : i.type = "revenue" /\ ~i.approved}
             \cup IdInputs("approveTransaction", Known(transactions))
             \cup IdInputs("deleteTransaction", Known(transactions))
             \cup {i \in ItemInputs : i.quantity = 1}
             \cup IdInputs("deleteInventoryItem", Known(items))
             \cup {i \in ReceiptInputs(Known(items), {FALSE}) : i.qty = 1}
             \cup {i \in IssueInputs(Known(items), {FALSE}) : i.qty = 1}
             \cup ProjectInputs
             \cup {i \in CostInputs(Known(projects), {FALSE}) :
                        i.type = "expense"}
             \cup SaleInputs(Known(projects), {FALSE})
             \cup IdInputs("deleteProject", Known(projects))
             \cup IdInputs("getProjectSnapshot", Known(projects))
             \cup {[op |-> "getAccountingSnapshot"]} :
        Call(p, c, cap)

\* Requests of every operation of the store, one at a time, on a stocked
\* store, on either path; the database answers every call.
FrameNext ==
    \/ CallAny(1, MaxFrameId)
    \/ createTransaction_fallback(1)
    \/ approveTransaction_fallback(1)
    \/ deleteTransaction_fallback(1)
    \/ createInventoryItem_fallback(1)
    \/ deleteInventoryItem_fallback(1)
    \/ recordInventoryReceipt_fallback(1)
    \/ recordInventoryIssue_fallback(1)
    \/ createProject_fallback(1)
    \/ createProjectCost_fallback(1)
    \/ createProjectSale_fallback(1)
    \/ deleteProject_fallback(1)
    \/ getProjectSnapshot_fallback(1)
    \/ getAccountingSnapshot_fallback(1)
    \/ createTransaction_db(1)
    \/ approveTransaction_db(1)
    \/ deleteTransaction_db(1)
    \/ createInventoryItem_db(1)
    \/ deleteInventoryItem_db(1)
    \/ createProject_db(1)
    \/ getProjectSnapshot_db(1)
    \/ snapshotTransactions(1)
    \/ snapshotItems(1)
    \/ snapshotMovements(1)
    \/ snapshotProjects(1)
    \/ snapshotCosts(1)
    \/ snapshotSales(1)
    \/ getConnection(1)
    \/ beginTransaction(1)
    \/ getItemRowForUpdate(1)
    \/ updateItem(1)
    \/ insertRow(1)
    \/ insertTransactionDb(1)
    \/ lookupProject(1)
    \/ deleteSales(1)
    \/ deleteCosts(1)
    \/ deleteProjectRow(1)
    \/ commit(1)
    \/ rollback(1)
    \/ release(1)

\* A store that has served createInventoryItem twice and then
\* recordInventoryReceipt once, for the first item.
FrameInit ==
    /\ pool \in BOOLEAN
    /\ items = <<SeedStocked(1), NewInventoryItem(SeedItem, 2)>>
    /\ movements = <<ReceiptMovement(SeedReceipt(1), 3)>>
    /\ transactions =
        <<NewTransaction(ReceiptTransactionInput(SeedReceipt(1), SeedItem), 4, 0)>>
    /\ projects = <<>> /\ costs = <<>> /\ sales = <<>>
    /\ nextId = Len(items) + Len(movements) + Len(transactions) + 1
    /\ InitProcs

FrameSpec == FrameInit /\ [][FrameNext]_vars

\* ------------------------------------------------------------ HTTP handlers
\* The authenticated users requireAuth resolves a token to, one of each role.
HandlerUsers ==
    {[id |-> "u1", role |-> "manager"],
     [id |-> "u2", role |-> "accountant"],
     [id |-> "u3", role |-> "employee"]}

\* (mutant) every authenticated user may approve
canApproveAnyRole(user) == user \in HandlerUsers

canApprove(user) == user.role = "manager" \/ user.role = "accountant"

\* body.approved as parseBody returns it: the JSON literals true and false,
\* or a missing field.
JsonValues == {"true", "false", "undefined"}

\* Boolean(value)
Boolean(value) == value \notin {"false", "undefined"}

Forbidden == "Forbidden"

\* The request a handler is serving: the input it passes to the store, with
\* the user it was authenticated as (and, below, the body.approved it read).
Request(input, user) == input @@ [user |-> user]

\* respondError(res, 403, "Forbidden"); return
Forbid(p, c) ==
    /\ pc[p] \in {"idle", "done"}
    /\ call' = [call EXCEPT ![p] = c]
    /\ Goto(p, "done")
    /\ Throw(p, Forbidden)
    /\ base' = [base EXCEPT ![p] = <<>>]
    /\ wset' = [wset EXCEPT ![p] = EmptyWset]
    /\ ret' = [ret EXCEPT ![p] = <<>>]
    /\ dirty' = [dirty EXCEPT ![p] = FALSE]
    /\ UNCHANGED <<pool, tables, nextId, now, held>>

\* approved: canApprove(user) && Boolean(body.approved), createdBy: user.id
StoreInput(body, user, approved) ==
    Request([body EXCEPT !.approved = canApprove(user) /\ Boolean(approved),
                         !.createdBy = user.id], user)
        @@ [asked |-> approved]

createTransactionHandler(p) ==
    \E user \in HandlerUsers, approved \in JsonValues,
       body \in {i \in TransactionInputs : i.type = "revenue" /\ ~i.approved} :
        Call(p, StoreInput(body, user, approved), MaxHandlerId)

approveTransactionHandler(p) ==
    \E user \in HandlerUsers,
       c \in IdInputs("approveTransaction", Ids(transactions)) :
        IF ~canApprove(user)
        THEN Forbid(p, Request(c, user))
        ELSE Call(p, Request(c, user), MaxHandlerId)

deleteTransactionHandler(p) ==
    \E user \in HandlerUsers,
       c \in IdInputs("deleteTransaction", Ids(transactions)) :
        IF ~canApprove(user)
        THEN Forbid(p, Request(c, user))
        ELSE Call(p, Request(c, user), MaxHandlerId)

recordInventoryReceiptHandler(p) ==
    \E user \in HandlerUsers, approved \in JsonValues,
       body \in {i \in ReceiptInputs(Ids(items), {FALSE}) : i.qty = 1} :
        Call(p, StoreInput(body, user, approved), MaxHandlerId)

recordInventoryIssueHandler(p) ==
    \E user \in HandlerUsers, approved \in JsonValues,
       body \in {i \in IssueInputs(Ids(items), {FALSE}) : i.qty = 1} :
        Call(p, StoreInput(body, user, approved), MaxHandlerId)

createProjectCostHandler(p) ==
    \E user \in HandlerUsers,
       body \in {i \in CostInputs(Ids(projects), {FALSE}) :
                     i.type = "expense"} :
        IF ~canApprove(user)
        THEN Forbid(p, Request(body, user))
        ELSE \E approved \in JsonValues :
                 Call(p, StoreInput(body, user, approved), MaxHandlerId)

createProjectSaleHandler(p) ==
    \E user \in HandlerUsers, body \in SaleInputs(Ids(projects), {FALSE}) :
        IF ~canApprove(user)
        THEN Forbid(p, Request(body, user))
        ELSE \E approved \in JsonValues :
                 Call(p, StoreInput(body, user, approved), MaxHandlerId)

\* A store that has served createInventoryItem and createProject once each.
HandlerInit ==
    /\ pool \in BOOLEAN
    /\ items = <<NewInventoryItem(SeedItem, 1)>>
    /\ projects = <<NewProject(SeedProject, 2)>>
    /\ movements = <<>> /\ transactions = <<>>
    /\ costs = <<>> /\ sales = <<>>
    /\ nextId = Len(items) + Len(projects) + 1
    /\ InitProcs

\* Requests to the handlers that create, approve and delete transactions, one
\* at a time, from users of every role, on either path; bodies are well
\* formed and the database answers every call.
HandlerNext ==
    \/ createTransactionHandler(1)
    \/ approveTransactionHandler(1)
    \/ deleteTransactionHandler(1)
    \/ recordInventoryReceiptHandler(1)
    \/ recordInventoryIssueHandler(1)
    \/ createProjectCostHandler(1)
    \/ createProjectSaleHandler(1)
    \/ createTransaction_fallback(1)
    \/ approveTransaction_fallback(1)
    \/ deleteTransaction_fallback(1)
    \/ recordInventoryReceipt_fallback(1)
    \/ recordInventoryIssue_fallback(1)
    \/ createProjectCost_fallback(1)
    \/ createProjectSale_fallback(1)
    \/ createTransaction_db(1)
    \/ approveTransaction_db(1)
    \/ deleteTransaction_db(1)
    \/ getConnection(1)
    \/ beginTransaction(1)
    \/ getItemRowForUpdate(1)
    \/ updateItem(1)
    \/ insertRow(1)
    \/ insertTransactionDb(1)
    \/ commit(1)
    \/ release(1)

HandlerSpec == HandlerInit /\ [][HandlerNext]_vars

\* A store that has served createInventoryItem once.
TallyInit ==
    /\ pool \in BOOLEAN
    /\ items = <<NewInventoryItem(SeedItem, 1)>>
    /\ movements = <<>> /\ transactions = <<>>
    /\ projects = <<>> /\ costs = <<>> /\ sales = <<>>
    /\ nextId = Len(items) + 1
    /\ InitProcs

\* Receipts and issues on the item, one after the other, on either path; the
\* database answers every call.
TallyNext ==
    \/ CallStock(1, MaxTallyId)
    \/ recordInventoryReceipt_fallback(1)
    \/ recordInventoryIssue_fallback(1)
    \/ getConnection(1)
    \/ beginTransaction(1)
    \/ getItemRowForUpdate(1)
    \/ updateItem(1)
    \/ insertRow(1)
    \/ insertTransactionDb(1)
    \/ commit(1)
    \/ release(1)

TallySpec == TallyInit /\ [][TallyNext]_vars

\* A full-snapshot read while receipts and issues are recorded by another
\* request, with MySQL configured; the database answers every call.
ReadNext ==
    \/ CallSnapshot(1)
    \/ snapshotTransactions(1)
    \/ snapshotItems(1)
    \/ snapshotMovements(1)
    \/ snapshotProjects(1)
    \/ snapshotCosts(1)
    \/ snapshotSales(1)
    \/ CallStock(2, MaxFrameId)
    \/ getConnection(2)
    \/ beginTransaction(2)
    \/ getItemRowForUpdate(2)
    \/ updateItem(2)
    \/ insertRow(2)
    \/ insertTransactionDb(2)
    \/ commit(2)
    \/ release(2)

ReadInit == FrameInit /\ pool

ReadSpec == ReadInit /\ [][ReadNext]_vars

\* ------------------------------------------------------------------ claims
\* The step in which a call of `op` by request p succeeds: the synchronous
\* body on the fallback path, the commit on the relational path.
Succeeds(p, op) ==
    /\ call[p].op = op
    /\ \/ ~pool /\ pc[p] = "pool" /\ pc'[p] = "done" /\ err'[p] = NoError
       \/ pool /\ pc[p] = "commit" /\ pc'[p] = "release"

Finished(p, op) == pc[p] = "done" /\ call[p].op = op

\* C1: a successful recordInventoryReceipt leaves the quantity of the (existing)
\* item at its previous quantity plus qty and its updatedAt at the receipt
\* date, on the fallback and on the relational path.
ReceiptAddsQuantity ==
    [][\A p \in Procs : \A i \in 1..Len(items) :
        Succeeds(p, "recordInventoryReceipt") /\ items[i].id = call[p].itemId
        => /\ Len(items') = Len(items)
           /\ items'[i].id = items[i].id
           /\ items'[i].quantity = items[i].quantity + call[p].qty
           /\ items'[i].updatedAt = call[p].date]_vars

\* C1 witness: on the relational path a receipt of 1 has returned and the
\* item that held 2 now holds 3.
ReceiptAddsQuantityWitness ==
    /\ pool /\ Finished(1, "recordInventoryReceipt") /\ err[1] = NoError
    /\ call[1].qty = 1
    /\ base[1] # <<>> /\ base[1][1].quantity = 2
    /\ \E i \in 1..Len(items) :
        items[i].id = call[1].itemId /\ items[i].quantity = 3
                                     /\ items[i].updatedAt = call[1].date

\* C2: a successful recordInventoryIssue leaves the quantity of the (existing)
\* item at max(0, previous quantity - qty), never below zero.
IssueClampsAtZero ==
    [][\A p \in Procs : \A i \in 1..Len(items) :
        Succeeds(p, "recordInventoryIssue") /\ items[i].id = call[p].itemId
        => /\ Len(items') = Len(items)
           /\ items'[i].id = items[i].id
           /\ items'[i].quantity =
                (IF items[i].quantity > call[p].qty
                 THEN items[i].quantity - call[p].qty ELSE 0)
           /\ items'[i].quantity >= 0]_vars

\* C2 witness: an issue of 2 from an item that held 1 has returned and the
\* item holds 0.
IssueClampsAtZeroWitness ==
    /\ pool /\ Finished(1, "recordInventoryIssue") /\ err[1] = NoError
    /\ call[1].qty = 2
    /\ base[1] # <<>> /\ base[1][1].quantity = 1
    /\ \E i \in 1..Len(items) :
        items[i].id = call[1].itemId /\ items[i].quantity = 0

\* C3: in every reachable state, concurrent interleavings on the relational
\* path included, every inventory item's quantity is >= 0 (committed rows and
\* rows written by an open transaction alike).
QuantityNeverNegative ==
    /\ \A i \in 1..Len(items) : items[i].quantity >= 0
    /\ \A p \in Procs : \A i \in 1..Len(wset[p].items) :
        wset[p].items[i].quantity >= 0

\* C3 witness: two requests on the same item have both committed on the
\* relational path, one of them an issue that asked for more than the item
\* held, and the item holds 0.
QuantityNeverNegativeWitness ==
    /\ pool
    /\ Finished(1, "recordInventoryIssue") /\ err[1] = NoError
    /\ Finished(2, "recordInventoryReceipt") /\ err[2] = NoError
    /\ call[1].itemId = call[2].itemId
    /\ base[1] # <<>> /\ call[1].qty > base[1][1].quantity
    /\ \E i \in 1..Len(items) :
        items[i].id = call[1].itemId /\ items[i].quantity = 0

IsAppend(t, tNew) ==
    Len(tNew) = Len(t) + 1 /\ SubSeq(tNew, 1, Len(t)) = t

Last(t) == t[Len(t)]

\* C4: every successful receipt or issue adds exactly one Movement (kind in /
\* out, total = qty * unitPrice, party = supplier / project) and exactly one
\* Transaction (expense, amount = the movement total, approved = the input
\* flag), and no other record.
MovementPairedWithTransaction ==
    [][\A p \in Procs :
        Succeeds(p, "recordInventoryReceipt")
            \/ Succeeds(p, "recordInventoryIssue")
        => /\ IsAppend(movements, movements')
           /\ IsAppend(transactions, transactions')
           /\ Last(movements').id \notin Ids(movements)
           /\ Last(movements').itemId = call[p].itemId
           /\ Last(movements').kind =
                (IF call[p].op = "recordInventoryReceipt" THEN "in" ELSE "out")
           /\ Last(movements').qty = call[p].qty
           /\ Last(movements').unitPrice = call[p].unitPrice
           /\ Last(movements').total = call[p].qty * call[p].unitPrice
           /\ Last(movements').party =
                (IF call[p].op = "recordInventoryReceipt"
                 THEN call[p].supplier ELSE call[p].project)
           /\ Last(transactions').id \notin Ids(transactions)
           /\ Last(transactions').type = "expense"
           /\ Last(transactions').amount = Last(movements').total
           /\ Last(transactions').approved = call[p].approved
           /\ Ids(items') = Ids(items)
           /\ UNCHANGED <<projects, costs, sales>>]_vars

\* C4 witness: a receipt of 2 at unit price 3, asked to be stored approved,
\* has returned on the fallback path; its movement and its transaction are
\* the only ones.
MovementPairedWithTransactionWitness ==
    /\ ~pool /\ Finished(1, "recordInventoryReceipt") /\ err[1] = NoError
    /\ call[1].qty = 2 /\ call[1].approved
    /\ Len(movements) = 1 /\ movements[1].total = 6
    /\ Len(transactions) = 1 /\ transactions[1].amount = 6
    /\ transactions[1].approved

\* C7: a receipt or issue for an item id that does not exist fails with
\* 'Inventory item not found' and leaves the six collections as they were, on
\* both paths (on the relational path a database call that fails makes the
\* operation fail with that failure instead, the collections still as they
\* were).
UnknownItemRejected ==
    \A p \in Procs :
        /\ pc[p] = "done"
        /\ call[p].op \in {"recordInventoryReceipt", "recordInventoryIssue"}
        /\ ~Has(items, call[p].itemId)
        => /\ err[p] \in (IF pool THEN {ItemNotFound, DbError, RollbackError}
                                  ELSE {ItemNotFound})
           /\ ~dirty[p]

\* C7 witness: an issue for an unknown id has been rejected on the relational
\* path while the store holds an item.
UnknownItemRejectedWitness ==
    /\ pool /\ Finished(1, "recordInventoryIssue")
    /\ err[1] = ItemNotFound
    /\ call[1].itemId = UnknownId
    /\ items # <<>>

\* C5: every successful createProjectCost adds exactly one cost and one
\* Transaction of type expense with the cost's amount; every successful
\* createProjectSale adds exactly one sale and one Transaction of type
\* revenue with the sale's price; the Transaction's approved flag is the
\* input's; nothing else is added.
CostOrSalePairedWithTransaction ==
    [][\A p \in Procs :
        /\ Succeeds(p, "createProjectCost")
           => /\ IsAppend(costs, costs')
              /\ Last(costs').id \notin Ids(costs)
              /\ Last(costs').projectId = call[p].projectId
              /\ Last(costs').type = call[p].type
              /\ Last(costs').amount = call[p].amount
              /\ IsAppend(transactions, transactions')
              /\ Last(transactions').id \notin Ids(transactions)
              /\ Last(transactions').type = "expense"
              /\ Last(transactions').amount = call[p].amount
              /\ Last(transactions').approved = call[p].approved
              /\ UNCHANGED <<sales, projects, items, movements>>
        /\ Succeeds(p, "createProjectSale")
           => /\ IsAppend(sales, sales')
              /\ Last(sales').id \notin Ids(sales)
              /\ Last(sales').projectId = call[p].projectId
              /\ Last(sales').price = call[p].price
              /\ IsAppend(transactions, transactions')
              /\ Last(transactions').id \notin Ids(transactions)
              /\ Last(transactions').type = "revenue"
              /\ Last(transactions').amount = call[p].price
              /\ Last(transactions').approved = call[p].approved
              /\ UNCHANGED <<costs, projects, items, movements>>]_vars

\* C5 witness: on the relational path a sale asked to be stored approved has
\* returned; the new sale and an approved revenue transaction of its price
\* are the last rows of their tables.
CostOrSalePairedWithTransactionWitness ==
    /\ pool /\ Finished(1, "createProjectSale") /\ err[1] = NoError
    /\ call[1].approved /\ call[1].projectId = 2
    /\ Len(sales) = 3 /\ Last(sales).projectId = 2
    /\ Len(costs) = 2 /\ Len(transactions) = 5
    /\ Last(transactions).type = "revenue"
    /\ Last(transactions).amount = Last(sales).price
    /\ Last(transactions).approved

\* C8: a successful deleteProject(id) leaves no cost or sale with projectId =
\* id and no project id, getProjectById(id) and getProjectSnapshot(id) return
\* null from then on, and the costs and sales of every other project are as
\* they were.
DeleteProjectRemovesItsRows ==
    [][\A p \in Procs :
        /\ Succeeds(p, "deleteProject")
           => LET id == call[p].id IN
              /\ \A i \in 1..Len(costs') : costs'[i].projectId # id
              /\ \A i \in 1..Len(sales') : sales'[i].projectId # id
              /\ \A i \in 1..Len(projects') : projects'[i].id # id
              /\ (IF pool THEN getProjectByIdDb(id)
                          ELSE getProjectByIdFallback(id))' = <<>>
              /\ (IF pool THEN getProjectSnapshotDb(id)
                          ELSE getProjectSnapshotFallback(id))' = <<>>
              /\ costs' = SelectSeq(costs, LAMBDA r : r.projectId # id)
              /\ sales' = SelectSeq(sales, LAMBDA r : r.projectId # id)
              /\ projects' = SelectSeq(projects, LAMBDA r : r.id # id)
        /\ /\ pc'[p] = "done" /\ err'[p] = NoError
           /\ call'[p].op \in {"getProjectById", "getProjectSnapshot"}
           /\ \A i \in 1..Len(projects') : projects'[i].id # call'[p].id
           => ret'[p] = <<>>]_vars

\* C8 witness: project 1, which had a cost and a sale, has been deleted;
\* getProjectSnapshot(1) has then returned null, and the cost and the sale
\* of project 2 are still there.
DeleteProjectRemovesItsRowsWitness ==
    /\ Finished(1, "getProjectSnapshot") /\ err[1] = NoError
    /\ call[1].id = 1 /\ ret[1] = <<>>
    /\ Ids(projects) = {2}
    /\ Len(costs) = 1 /\ costs[1].projectId = 2
    /\ Len(sales) = 1 /\ sales[1].projectId = 2

\* C6: on the relational path, a compound operation that fails after its
\* transaction began is rolled back: when it has thrown, the committed tables
\* were never changed by it and none of its writes is pending.
FailedCompoundLeavesNoWrite ==
    \A p \in Procs :
        pool /\ pc[p] = "done" /\ call[p].op \in Compound /\ err[p] # NoError
        => ~dirty[p] /\ wset[p] = EmptyWset

\* C6 witness: a receipt for the existing item has thrown the database's
\* error after both of its uuids were generated (its UPDATE and its two
\* INSERTs had been sent); the other request has not started, and the tables
\* hold what they held at the start.
FailedCompoundLeavesNoWriteWitness ==
    /\ pool /\ Finished(1, "recordInventoryReceipt") /\ err[1] = DbError
    /\ base[1] # <<>> /\ pc[2] = "idle"
    /\ nextId = 9
    /\ movements = <<>> /\ Len(transactions) = 2
    /\ items[1].quantity = 1

ApproveIdempotent ==
    [][\A p \in Procs :
        /\ pc[p] = "pool" /\ pc'[p] = "done" /\ err'[p] = NoError
        /\ call[p].op = "approveTransaction"
        => /\ Len(transactions') = Len(transactions)
           /\ \A i \in 1..Len(transactions) :
                transactions'[i] =
                    (IF transactions[i].id = call[p].id
                     THEN [transactions[i] EXCEPT !.approved = TRUE]
                     ELSE transactions[i])
           /\ UNCHANGED <<items, movements, projects, costs, sales>>
           /\ (\E i \in 1..Len(transactions) :
                 transactions[i].id = call[p].id /\ transactions[i].approved)
              => UNCHANGED tables
           /\ ret'[p] # <<>> /\ ret'[p][1].id = call[p].id
           /\ ret'[p][1].approved]_vars

\* C10 witness: on the relational path approveTransaction has returned the
\* approved transaction without having changed the store, which holds two
\* transactions, the other one unapproved.
ApproveIdempotentWitness ==
    /\ pool /\ Finished(1, "approveTransaction") /\ err[1] = NoError
    /\ ~dirty[1]
    /\ Len(transactions) = 2
    /\ \E i, j \in 1..2 :
        /\ transactions[i].id = call[1].id /\ transactions[i].approved
        /\ ~transactions[j].approved
    /\ ret[1] # <<>> /\ ret[1][1].approved

\* The step in which request p's call of `op`, served by one synchronous body
\* or one round of queries, returns or throws.
Returns(p, op) ==
    pc[p] = "pool" /\ pc'[p] = "done" /\ call[p].op = op

\* C11: approveTransaction with an id that matches no transaction fails with
\* 'Transaction not found' (on the relational path, with the database's error
\* if a query is rejected), changes nothing in the store and creates no
\* transaction for that id, on both paths.
ApproveUnknownRejected ==
    [][\A p \in Procs :
        Returns(p, "approveTransaction") /\ ~Has(transactions, call[p].id)
        => /\ err'[p] \in (IF pool THEN {TransactionNotFound, DbError}
                                   ELSE {TransactionNotFound})
           /\ UNCHANGED tables
           /\ \A i \in 1..Len(transactions') :
                transactions'[i].id # call[p].id
           /\ ret'[p] = <<>>]_vars

\* C11 witness: on the relational path approveTransaction for the id of a
\* transaction that was deleted before has failed with 'Transaction not
\* found'; the store holds another transaction, still unapproved.
ApproveUnknownRejectedWitness ==
    /\ pool /\ Finished(1, "approveTransaction")
    /\ err[1] = TransactionNotFound
    /\ call[1].id # UnknownId /\ ~Has(transactions, call[1].id)
    /\ Len(transactions) = 1 /\ ~transactions[1].approved
    /\ ~dirty[1]

\* C12: on the fallback path deleteTransaction fails with 'Transaction not
\* found' and leaves the store unchanged when the id is absent, and otherwise
\* removes exactly that transaction; on the relational path the DELETE is
\* unconditional: unless the query itself is rejected the call completes
\* without error whether or not the id exists, and the transactions left are
\* exactly those with another id.
DeleteTransactionChecksOnFallbackOnly ==
    [][\A p \in Procs :
        Returns(p, "deleteTransaction")
        => LET id == call[p].id
               others == SelectSeq(transactions, LAMBDA r : r.id # id)
           IN /\ UNCHANGED <<items, movements, projects, costs, sales>>
              /\ ~pool /\ ~Has(transactions, id)
                 => err'[p] = TransactionNotFound /\ UNCHANGED transactions
              /\ ~pool /\ Has(transactions, id)
                 => /\ err'[p] = NoError /\ transactions' = others
                    /\ Len(transactions') = Len(transactions) - 1
              /\ pool
                 => \/ err'[p] = NoError /\ transactions' = others
                    \/ err'[p] = DbError /\ UNCHANGED transactions]_vars

\* C12 witness: on the relational path deleteTransaction for an id that no
\* transaction ever had has completed without error and without changing the
\* two transactions stored.
DeleteTransactionChecksOnFallbackOnlyWitness ==
    /\ pool /\ Finished(1, "deleteTransaction") /\ err[1] = NoError
    /\ call[1].id = UnknownId
    /\ Len(transactions) = 2 /\ ~dirty[1]

\* C13: on the fallback path deleteInventoryItem is an existence-checked
\* deletion: called with an id that matches no inventory item it fails with
\* 'Inventory item not found' instead of completing successfully.
DeleteUnknownItemRejected ==
    [][\A p \in Procs :
        ~pool /\ Returns(p, "deleteInventoryItem") /\ ~Has(items, call[p].id)
        => err'[p] = ItemNotFound]_vars

\* C14: on the fallback path deleteInventoryItem(id) leaves no movement with
\* itemId = id and leaves the movements of the other items as they were; on
\* the relational path it removes the inventory_items row only and the
\* movements table is as it was.
DeleteItemCascadesOnFallbackOnly ==
    [][\A p \in Procs :
        Returns(p, "deleteInventoryItem")
        => LET id == call[p].id IN
           /\ UNCHANGED <<transactions, projects, costs, sales>>
           /\ ~pool
              => /\ \A i \in 1..Len(movements') : movements'[i].itemId # id
                 /\ movements' =
                        SelectSeq(movements, LAMBDA m : m.itemId # id)
                 /\ items' = SelectSeq(items, LAMBDA r : r.id # id)
           /\ pool
              => /\ UNCHANGED movements
                 /\ \/ err'[p] = NoError
                       /\ items' = SelectSeq(items, LAMBDA r : r.id # id)
                    \/ err'[p] = DbError /\ UNCHANGED items]_vars

\* C14 witness: on the fallback path item 1 has been deleted with its
\* movement; the movement of item 2 is still there, and both transactions.
DeleteItemCascadesOnFallbackOnlyWitness ==
    /\ ~pool /\ Finished(1, "deleteInventoryItem") /\ err[1] = NoError
    /\ call[1].id = 1 /\ dirty[1]
    /\ Ids(items) = {2}
    /\ Len(movements) = 1 /\ movements[1].itemId = 2
    /\ Len(transactions) = 2

\* What a full-snapshot read by request p has returned.
Snapshot(p) == ret[p][1]

SnapshotReturned(p) ==
    Finished(p, "getAccountingSnapshot") /\ err[p] = NoError

\* list holds every record of the stored collection exactly once
PermutationOf(list, stored) ==
    /\ Len(list) = Len(stored)
    /\ \A i \in 1..Len(stored) :
        Cardinality({j \in 1..Len(list) : list[j] = stored[i]}) = 1

\* C15: the transactions list of the full snapshot is a permutation of the
\* stored transactions, ordered by date descending and, among transactions of
\* equal date, by creation timestamp descending.
SnapshotTransactionsOrdered ==
    \A p \in Procs :
        SnapshotReturned(p)
        => LET list == Snapshot(p).transactions IN
           /\ PermutationOf(list, transactions)
           /\ \A i, j \in 1..Len(list) :
                i < j => \/ list[i].date > list[j].date
                         \/ /\ list[i].date = list[j].date
                            /\ list[i].createdAt >= list[j].createdAt

\* C15 witness: transactions stored with dates 1, 3, 2 have been returned by
\* the fallback snapshot with dates 3, 2, 1.
SnapshotTransactionsOrderedWitness ==
    /\ ~pool /\ SnapshotReturned(1)
    /\ Len(transactions) = 3
    /\ <<transactions[1].date, transactions[2].date, transactions[3].date>>
            = <<1, 3, 2>>
    /\ LET list == Snapshot(1).transactions IN
        <<list[1].date, list[2].date, list[3].date>> = <<3, 2, 1>>

\* the field key of the records of list does not increase along the list
DescendingBy(list, key) ==
    \A i, j \in 1..Len(list) : i < j => list[i][key] >= list[j][key]

\* C16: in the full snapshot the items are ordered by updatedAt descending,
\* the projects by createdAt descending and the movements, costs and sales by
\* date descending; each list holds every stored record of its type exactly
\* once, and the read leaves the stored collections as they were.
SnapshotListsOrdered ==
    \A p \in Procs :
        SnapshotReturned(p)
        => /\ DescendingBy(Snapshot(p).items, "updatedAt")
           /\ DescendingBy(Snapshot(p).projects, "createdAt")
           /\ DescendingBy(Snapshot(p).movements, "date")
           /\ DescendingBy(Snapshot(p).costs, "date")
           /\ DescendingBy(Snapshot(p).sales, "date")
           /\ PermutationOf(Snapshot(p).items, items)
           /\ PermutationOf(Snapshot(p).projects, projects)
           /\ PermutationOf(Snapshot(p).movements, movements)
           /\ PermutationOf(Snapshot(p).costs, costs)
           /\ PermutationOf(Snapshot(p).sales, sales)
           /\ ~dirty[p]

\* C16 witness: items stored with updatedAt 1, 3, 2 and movements stored with
\* dates 1, 3, 2 have been returned by the fallback snapshot in the order
\* 3, 2, 1, and the stored collections still hold them in the order 1, 3, 2.
SnapshotListsOrderedWitness ==
    /\ ~pool /\ SnapshotReturned(1)
    /\ Len(items) = 3
    /\ <<items[1].updatedAt, items[2].updatedAt, items[3].updatedAt>>
            = <<1, 3, 2>>
    /\ <<movements[1].date, movements[2].date, movements[3].date>> = <<1, 3, 2>>
    /\ LET list == Snapshot(1).items IN
        <<list[1].updatedAt, list[2].updatedAt, list[3].updatedAt>> = <<3, 2, 1>>
    /\ LET list == Snapshot(1).movements IN
        <<list[1].date, list[2].date, list[3].date>> = <<3, 2, 1>>

\* C17: the fallback snapshot orders every collection as the relational
\* snapshot orders the same stored records, ties on the first sort key
\* included: movements, costs and sales of equal date newest-created first,
\* items and projects of equal timestamp by name ascending.
FallbackSnapshotOrdersAsRelational ==
    \A p \in Procs :
        ~pool /\ SnapshotReturned(p)
        => /\ Snapshot(p).transactions \in TransactionRowOrders
           /\ Snapshot(p).items \in ItemRowOrders
           /\ Snapshot(p).projects \in ProjectRowOrders
           /\ Snapshot(p).movements = OrderByDateDescCreatedDesc(movements)
           /\ Snapshot(p).costs = OrderByDateDescCreatedDesc(costs)
           /\ Snapshot(p).sales = OrderByDateDescCreatedDesc(sales)

\* The six collections as one record.
Store ==
    [transactions |-> transactions, items |-> items, movements |-> movements,
     projects |-> projects, costs |-> costs, sales |-> sales]

Position(t, id) ==
    IF Has(t, id) THEN CHOOSE i \in 1..Len(t) : t[i].id = id ELSE 0

\* A store up to ids and timestamps: the generated id of every record and the
\* creation timestamp of every transaction are blanked, and a reference to an
\* item or a project is replaced by the position of the record it names.
Anonymous(S) ==
    [transactions |-> [i \in 1..Len(S.transactions) |->
        [S.transactions[i] EXCEPT !.id = 0, !.createdAt = 0]],
     items |-> [i \in 1..Len(S.items) |-> [S.items[i] EXCEPT !.id = 0]],
     movements |-> [i \in 1..Len(S.movements) |->
        [S.movements[i] EXCEPT !.id = 0, !.itemId = Position(S.items, @)]],
     projects |-> [i \in 1..Len(S.projects) |->
        [S.projects[i] EXCEPT !.id = 0]],
     costs |-> [i \in 1..Len(S.costs) |->
        [S.costs[i] EXCEPT !.id = 0, !.projectId = Position(S.projects, @)]],
     sales |-> [i \in 1..Len(S.sales) |->
        [S.sales[i] EXCEPT !.id = 0, !.projectId = Position(S.projects, @)]]]

Outcome(e, S) == [err |-> e, store |-> S]

\* The outcome of the fallback body of operation c on the store as it is now,
\* and the store it leaves.
FallbackOutcome(c) ==
    LET WithTransaction(S, input, id) ==
            [S EXCEPT !.transactions = MapSet(@, NewTransaction(input, id, now))]
    IN
    IF c.op = "createInventoryItem"
    THEN Outcome(NoError,
            [Store EXCEPT !.items = MapSet(@, NewInventoryItem(c, nextId))])
    ELSE IF c.op = "createProject"
    THEN Outcome(NoError,
            [Store EXCEPT !.projects = MapSet(@, NewProject(c, nextId))])
    ELSE IF c.op = "createTransaction"
    THEN Outcome(NoError, WithTransaction(Store, c, nextId))
    ELSE IF c.op = "approveTransaction"
    THEN LET existing == Lookup(transactions, c.id) IN
         IF existing = <<>> THEN Outcome(TransactionNotFound, Store)
         ELSE Outcome(NoError,
                [Store EXCEPT !.transactions =
                    MapSet(@, [existing[1] EXCEPT !.approved = TRUE])])
    ELSE IF c.op \in {"recordInventoryReceipt", "recordInventoryIssue"}
    THEN LET item == Lookup(items, c.itemId) IN
         IF item = <<>> THEN Outcome(ItemNotFound, Store)
         ELSE IF c.op = "recordInventoryReceipt"
         THEN Outcome(NoError, WithTransaction(
                [Store EXCEPT
                    !.items = MapSet(@, ReceiptUpdated(item[1], c)),
                    !.movements = MapSet(@, ReceiptMovement(c, nextId))],
                ReceiptTransactionInput(c, item[1]), nextId + 1))
         ELSE Outcome(NoError, WithTransaction(
                [Store EXCEPT
                    !.items = MapSet(@, IssueUpdated(item[1], c)),
                    !.movements = MapSet(@, IssueMovement(c, nextId))],
                IssueTransactionInput(c, item[1]), nextId + 1))
    ELSE IF c.op = "createProjectCost"
    THEN Outcome(NoError, WithTransaction(
            [Store EXCEPT !.costs = MapSet(@, NewProjectCost(c, nextId))],
            CostTransactionInput(c), nextId + 1))
    ELSE IF c.op = "createProjectSale"
    THEN Outcome(NoError, WithTransaction(
            [Store EXCEPT !.sales = MapSet(@, NewProjectSale(c, nextId))],
            SaleTransactionInput(c), nextId + 1))
    ELSE IF ~Has(projects, c.id) THEN Outcome(ProjectNotFound, Store)
    ELSE Outcome(NoError,
            [Store EXCEPT !.projects = MapDelete(@, c.id),
                          !.costs = NotOfProject(@, c.id),
                          !.sales = NotOfProject(@, c.id)])

\* The step of request p that writes the collections, or the step in which a
\* call that wrote nothing returns.
Writes(p) == pc[p] \notin {"idle", "done"} /\ tables' # tables

ReturnsUnwritten(p) == pc[p] # "done" /\ pc'[p] = "done" /\ ~dirty'[p]

ReturnsWritten(p) == pc[p] # "done" /\ pc'[p] = "done" /\ dirty'[p]

AsFallback(p) ==
    /\ Writes(p) => /\ FallbackOutcome(call[p]).err = NoError
                    /\ Anonymous(Store') = Anonymous(FallbackOutcome(call[p]).store)
    /\ ReturnsUnwritten(p)
        => /\ err'[p] = FallbackOutcome(call[p]).err
           /\ Anonymous(Store) = Anonymous(FallbackOutcome(call[p]).store)
    /\ ReturnsWritten(p) => err'[p] = NoError

\* C18: for requests served one at a time, each of createInventoryItem,
\* recordInventoryReceipt, recordInventoryIssue, createProject,
\* createProjectCost, createProjectSale, deleteProject, createTransaction and
\* approveTransaction has, on the relational path as on the fallback path,
\* the outcome (success or NotFound) of the fallback body and leaves the
\* records the fallback body leaves, up to ids and timestamps; so any
\* sequence of them ends in the same records on both paths.
SequentialPathsAgree == [][\A p \in Procs : AsFallback(p)]_vars

\* The same statement for the fallback path alone.
FallbackAsFallback == [][\A p \in Procs : ~pool => AsFallback(p)]_vars

\* list holds the stored rows of project id, each once, and no other
RowsOfProject(list, stored, id) ==
    /\ \A j \in 1..Len(list) : list[j] \in Rows(stored)
    /\ \A i \in 1..Len(stored) :
        Cardinality({j \in 1..Len(list) : list[j] = stored[i]})
            = IF stored[i].projectId = id THEN 1 ELSE 0

\* C19: getProjectSnapshot(id) returns null when no project has that id, and
\* otherwise the project with exactly the costs and the sales whose projectId
\* is id, each list ordered by date descending.
ProjectSnapshotHoldsItsRows ==
    \A p \in Procs :
        Finished(p, "getProjectSnapshot") /\ err[p] = NoError
        => LET id == call[p].id IN
           IF ~Has(projects, id) THEN ret[p] = <<>>
           ELSE /\ Len(ret[p]) = 1
                /\ ret[p][1].project = Lookup(projects, id)[1]
                /\ RowsOfProject(ret[p][1].costs, costs, id)
                /\ RowsOfProject(ret[p][1].sales, sales, id)
                /\ DescendingBy(ret[p][1].costs, "date")
                /\ DescendingBy(ret[p][1].sales, "date")

\* C19 witness: of three stored costs, two of project 1 stored with dates 1
\* and 2 and one of project 2, the relational snapshot of project 1 has
\* returned the two of project 1 with dates 2, 1.
ProjectSnapshotHoldsItsRowsWitness ==
    /\ pool /\ Finished(1, "getProjectSnapshot") /\ err[1] = NoError
    /\ call[1].id = 1 /\ Len(costs) = 3
    /\ <<costs[1].projectId, costs[2].projectId, costs[3].projectId>>
            = <<1, 1, 2>>
    /\ <<costs[1].date, costs[2].date>> = <<1, 2>>
    /\ Len(ret[1]) = 1 /\ Len(ret[1][1].costs) = 2
    /\ <<ret[1][1].costs[1].date, ret[1][1].costs[2].date>> = <<2, 1>>

\* C19 witness (no project): the snapshot of an id no project has returned
\* null while costs were stored.
ProjectSnapshotOfUnknownWitness ==
    /\ Finished(1, "getProjectSnapshot") /\ err[1] = NoError
    /\ call[1].id = UnknownId /\ ret[1] = <<>> /\ costs # <<>>

\* C20: a compound operation on the relational path releases the connection
\* it took exactly once before it returns, whether it commits, fails at any
\* step or fails during the rollback: a request holds one connection from
\* getConnection to release, none when it has returned, and never gives back
\* more than it took.
ConnectionReleasedOnce ==
    \A p \in Procs :
        /\ held[p] \in {0, 1}
        /\ pc[p] \in {"idle", "pool", "done"} => held[p] = 0
        /\ pc[p] \in InTry \cup {"rollback", "release"} => held[p] = 1

\* C20 witness: a compound operation whose rollback failed has returned, and
\* holds no connection.
ConnectionReleasedOnceWitness ==
    /\ pool /\ pc[1] = "done" /\ call[1].op \in Compound
    /\ err[1] = RollbackError /\ held[1] = 0

\* The quantity of an item after operation c has been applied to it alone.
AppliedTo(quantity, c) ==
    IF c.op = "recordInventoryReceipt" THEN quantity + c.qty
    ELSE NextQuantity(quantity, c.qty)

\* The quantity item id reaches from q when the requests of order (a sequence
\* of requests) that name it are applied one after another.
RECURSIVE SeriallyApplied(_, _, _)
SeriallyApplied(q, order, id) ==
    IF order = <<>> THEN q
    ELSE SeriallyApplied(
            IF call[Head(order)].itemId = id
            THEN AppliedTo(q, call[Head(order)]) ELSE q,
            Tail(order), id)

SerialOrders ==
    {order \in [1..Cardinality(Procs) -> Procs] :
        \A i, j \in DOMAIN order : i # j => order[i] # order[j]}

AllCommitted == \A p \in Procs : pc[p] = "done" /\ err[p] = NoError

\* C21: when concurrent receipts and issues on the relational path have all
\* committed, the quantity of every item is the one that applying the same
\* operations one after another, in some order, gives.
NoLostUpdate ==
    pool /\ AllCommitted
    => \A i \in 1..Len(items) :
        \E order \in SerialOrders :
            items[i].quantity =
                SeriallyApplied(SeedStocked(items[i].id).quantity, order,
                                items[i].id)

\* C22: when a step of a compound operation fails, the caller receives the
\* error of that step unchanged, whichever step failed and also when the
\* rollback that follows fails: from the catch block to the return the
\* pending error of a request stays the one that was thrown.
OriginatingErrorSurfaces ==
    [][\A p \in Procs :
         pc[p] \in {"rollback", "release"} => err'[p] = err[p]]_vars


\* The request that process p is serving is a receipt or an issue on item id.
StockRequestOn(p, id) ==
    /\ pc[p] \notin {"idle", "done"}
    /\ call[p].op \in {"recordInventoryReceipt", "recordInventoryIssue"}
    /\ call[p].itemId = id

\* C23: the quantity of an existing item is changed only by a receipt or an
\* issue recorded on that item: every step of every other operation
\* (createTransaction, approveTransaction, deleteTransaction,
\* createInventoryItem, createProject, createProjectCost, createProjectSale,
\* deleteProject, the snapshot reads) leaves the quantity of every item that
\* exists before and after it unchanged, and a receipt or an issue on one item
\* leaves every other item unchanged.
QuantityFrame ==
    [][\A i \in 1..Len(items) :
          (/\ Has(items', items[i].id)
           /\ Lookup(items', items[i].id)[1].quantity # items[i].quantity)
          => \E p \in Procs : StockRequestOn(p, items[i].id)]_vars

\* The transaction derived from a receipt on the first item has been
\* approved: the receipt changed the quantity of that item only, the approval
\* changed none.
QuantityFrameWitness ==
    /\ pc[1] = "done" /\ call[1].op = "approveTransaction" /\ err[1] = NoError
    /\ Len(movements) = 2 /\ call[1].id = transactions[Len(transactions)].id
    /\ Has(items, 1) /\ Lookup(items, 1)[1].quantity = SeedStocked(1).quantity + 1
    /\ Has(items, 2) /\ Lookup(items, 2)[1].quantity = SeedItem.quantity


\* C24: inventory movements are append-only: once a movement has been
\* created, none of its fields (itemId, kind, qty, unitPrice, total, party,
\* date) is changed by any step of any later operation while it exists,
\* later receipts and issues on the same item included.
MovementsAppendOnly ==
    [][\A i \in 1..Len(movements) :
          Has(movements', movements[i].id)
          => Lookup(movements', movements[i].id) = <<movements[i]>>]_vars

\* An issue has been recorded on the item of an earlier receipt, whose
\* movement is stored as it was created.
MovementsAppendOnlyWitness ==
    /\ pc[1] = "done" /\ call[1].op = "recordInventoryIssue" /\ err[1] = NoError
    /\ call[1].itemId = 1
    /\ Len(movements) = 2
    /\ movements[1] = ReceiptMovement(SeedReceipt(1), 3)
    /\ movements[2].itemId = 1 /\ movements[2].kind = "out"


\* The request that process p is serving is operation op on transaction id.
TransactionRequestOn(p, op, id) ==
    /\ pc[p] \notin {"idle", "done"}
    /\ call[p].op = op
    /\ call[p].id = id

\* C25: an existing transaction is changed only by approveTransaction and
\* deleteTransaction on its own id. A step that changes a stored transaction
\* belongs to approveTransaction on its id and changes its approved flag only,
\* from false to true; a step that removes one belongs to deleteTransaction on
\* its id. In particular deleting an inventory item or a project never
\* modifies or removes a transaction, and no step sets approved back to false.
TransactionsFrame ==
    [][\A i \in 1..Len(transactions) :
          LET old == transactions[i]
              new == Lookup(transactions', old.id)
          IN  /\ new = <<>>
                 => \E p \in Procs :
                        TransactionRequestOn(p, "deleteTransaction", old.id)
              /\ (new # <<>> /\ new # <<old>>)
                 => /\ \E p \in Procs :
                        TransactionRequestOn(p, "approveTransaction", old.id)
                    /\ new = <<[old EXCEPT !.approved = TRUE]>>
              /\ (new # <<>> /\ old.approved) => new[1].approved]_vars

\* The item of an approved derived transaction has been deleted, with its
\* movement; the transaction is stored, approved.
TransactionsFrameWitness ==
    /\ pc[1] = "done" /\ call[1].op = "deleteInventoryItem" /\ err[1] = NoError
    /\ call[1].id = 1 /\ ~Has(items, 1) /\ movements = <<>>
    /\ transactions =
         <<[NewTransaction(ReceiptTransactionInput(SeedReceipt(1), SeedItem), 4, 0)
               EXCEPT !.approved = TRUE]>>


\* A request of process p arrives in this step.
Arrives(p) == pc[p] \in {"idle", "done"} /\ <<pc[p], call[p]>>' # <<pc[p], call[p]>>

\* The users the claim lets approve: managers and accountants.
Privileged(user) == user.role \in {"manager", "accountant"}

\* Process p is serving a request of a manager or an accountant.
ServingPrivileged(p) ==
    pc[p] \notin {"idle", "done"} /\ Privileged(call[p].user)

\* C26: through the HTTP handlers a transaction is approved only because of a
\* manager or an accountant. A step that stores a transaction as approved, or
\* approves or removes a stored one, serves the request of such a user; a
\* transaction created, directly or as the derived transaction of a receipt,
\* an issue, a cost or a sale, for a user of another role is stored with
\* approved = false whatever body.approved says; approveTransactionHandler and
\* deleteTransactionHandler answer such a user 403 and leave the store
\* unchanged.
ApprovedOnlyByPrivileged ==
    [][
        /\ \A i \in 1..Len(transactions') :
            LET new == transactions'[i]
                old == Lookup(transactions, new.id)
            IN  /\ (new.approved /\ old # <<new>>)
                   => \E p \in Procs : ServingPrivileged(p)
                /\ old = <<>>
                   => \E p \in Procs :
                        /\ new.createdBy = call[p].user.id
                        /\ new.approved =
                             (Privileged(call[p].user) /\ Boolean(call[p].asked))
        /\ \A i \in 1..Len(transactions) :
            ~Has(transactions', transactions[i].id)
                => \E p \in Procs : ServingPrivileged(p)
        /\ \A p \in Procs :
            (/\ Arrives(p)
             /\ call'[p].op \in {"approveTransaction", "deleteTransaction"}
             /\ ~Privileged(call'[p].user))
            => /\ pc'[p] = "done" /\ err'[p] = Forbidden
               /\ tables' = tables
    ]_vars

\* An employee has recorded a receipt and then asked for the approval of its
\* derived transaction, which is stored unapproved: the answer is 403.
ApprovedOnlyByPrivilegedWitness ==
    /\ pc[1] = "done" /\ err[1] = Forbidden
    /\ call[1].op = "approveTransaction" /\ call[1].user.role = "employee"
    /\ Len(movements) = 1
    /\ \E i \in 1..Len(transactions) :
        /\ transactions[i].id = call[1].id
        /\ transactions[i].createdBy = call[1].user.id
        /\ ~transactions[i].approved
        /\ transactions[i].description[1] # "manual"


\* C27: on the fallback path every movement in the store references an
\* inventory item that currently exists, in every reachable state: a movement
\* is created only for an item found in the store, and deleting an item
\* removes all of its movements, several of them included.
MovementsReferenceItems ==
    ~pool => \A i \in 1..Len(movements) : Has(items, movements[i].itemId)

\* The first item has been deleted on the fallback path after a second
\* movement was recorded on it: both movements are gone with it, their
\* transactions are left.
MovementsReferenceItemsWitness ==
    /\ ~pool
    /\ pc[1] = "done" /\ call[1].op = "deleteInventoryItem" /\ err[1] = NoError
    /\ call[1].id = 1 /\ ~Has(items, 1) /\ Has(items, 2)
    /\ movements = <<>>
    /\ nextId = 7
    /\ Len(transactions) = 2
    /\ \A i \in 1..2 : transactions[i].description[1] # "manual"


\* C28: every ProjectCost and every ProjectSale in the store references a
\* project that currently exists, in every reachable state: createProjectCost
\* and createProjectSale never store a record for a project id that matches no
\* project. (Stated for the fallback path, where the store alone decides what
\* is kept.)
ProjectRecordsReferenceProjects ==
    ~pool => /\ \A i \in 1..Len(costs) : Has(projects, costs[i].projectId)
             /\ \A i \in 1..Len(sales) : Has(projects, sales[i].projectId)


\* The movements of item id, in the order they were recorded.
MovementsOf(id) == SelectSeq(movements, LAMBDA m : m.itemId = id)

\* The sum of qty over the movements of one kind.
RECURSIVE SumQty(_, _)
SumQty(ms, kind) ==
    IF ms = <<>> THEN 0
    ELSE (IF Head(ms).kind = kind THEN Head(ms).qty ELSE 0)
         + SumQty(Tail(ms), kind)

\* Some issue of the sequence asked for more than was in stock when it was
\* recorded, the stock having been q before the first movement.
RECURSIVE SomeIssueOverdrew(_, _)
SomeIssueOverdrew(q, ms) ==
    IF ms = <<>> THEN FALSE
    ELSE IF Head(ms).kind = "in"
         THEN SomeIssueOverdrew(q + Head(ms).qty, Tail(ms))
         ELSE \/ Head(ms).qty > q
              \/ SomeIssueOverdrew(q - Head(ms).qty, Tail(ms))

\* quantity at creation + sum of qty received - sum of qty issued
Balance(id) ==
    SeedItem.quantity + SumQty(MovementsOf(id), "in")
                      - SumQty(MovementsOf(id), "out")

\* C29: after any sequence of receipts and issues served one after the other,
\* the quantity of an item is at least its quantity at creation plus the qty
\* of its "in" movements minus the qty of its "out" movements, and equal to it
\* exactly when no issue asked for more than was in stock; an issue records
\* the requested qty in its movement, and requested qty x unitPrice as the
\* movement total and as the amount of the derived transaction, also when it
\* is clamped.
StockTally ==
    /\ \A i \in 1..Len(items) :
        /\ items[i].quantity >= Balance(items[i].id)
        /\ (items[i].quantity = Balance(items[i].id))
            <=> ~SomeIssueOverdrew(SeedItem.quantity, MovementsOf(items[i].id))
    /\ \A p \in Procs :
        (pc[p] = "done" /\ call[p].op = "recordInventoryIssue"
                        /\ err[p] = NoError)
        => /\ movements[Len(movements)].qty = call[p].qty
           /\ movements[Len(movements)].total = call[p].qty * call[p].unitPrice
           /\ transactions[Len(transactions)].amount
                = call[p].qty * call[p].unitPrice

\* An issue of more than was in stock has been recorded after a receipt: the
\* quantity is 0, above the balance of the movements, and the movement holds
\* the requested qty.
StockTallyWitness ==
    /\ pc[1] = "done" /\ call[1].op = "recordInventoryIssue" /\ err[1] = NoError
    /\ Len(movements) = 3
    /\ movements[1].kind = "in" /\ movements[2].kind = "out"
    /\ items[1].quantity = 0 /\ Balance(1) < 0
    /\ movements[3].qty = call[1].qty


\* The quantity of an item after the movements ms, recorded in this order on a
\* stock of q.
RECURSIVE QuantityAfter(_, _)
QuantityAfter(q, ms) ==
    IF ms = <<>> THEN q
    ELSE QuantityAfter(IF Head(ms).kind = "in" THEN q + Head(ms).qty
                       ELSE IF Head(ms).qty > q THEN 0
                       ELSE q - Head(ms).qty,
                       Tail(ms))

\* The movements of item id that a snapshot holds, in the order they were
\* committed.
ReturnedMovementsOf(S, id) ==
    SelectSeq(movements,
              LAMBDA m : m.itemId = id /\ m \in Rows(S.movements))

\* C30: on the relational path a full snapshot read while compound operations
\* are served shows a single point in time: every movement it returns comes
\* with its derived transaction (the record made next in the same database
\* transaction), and every item quantity it returns is explained by movements
\* it returns.
SnapshotAtOnePointInTime ==
    \A p \in Procs :
        (pool /\ SnapshotReturned(p))
        => /\ \A i \in 1..Len(Snapshot(p).movements) :
                Has(Snapshot(p).transactions, Snapshot(p).movements[i].id + 1)
           /\ \A i \in 1..Len(Snapshot(p).items) :
                LET ms == ReturnedMovementsOf(Snapshot(p),
                                              Snapshot(p).items[i].id)
                IN  \E k \in 0..Len(ms) :
                        Snapshot(p).items[i].quantity
                            = QuantityAfter(SeedItem.quantity, SubSeq(ms, 1, k))

====
